---- MODULE Spec2Model ----
(***************************************************************************)
(* Intake validation and relay pipeline of the OPS site edge workers:      *)
(* the contact intake worker, the join intake worker and the values they   *)
(* validate, sanitize and forward.                                         *)
(*                                                                         *)
(* A JavaScript string is a sequence of characters; a character is a       *)
(* one-element name ("a", "<") or the name of a special code point         *)
(* ("TAB", "NBSP", "RLO", "FWLT", "EACUTE", "FFFD").                       *)
(***************************************************************************)
EXTENDS Integers, Sequences, FiniteSets, TLC

--------------------------------------------------------------------------
(* Characters and character classes of the regular expressions.            *)

Digits == {"0", "1", "2", "3", "4", "5", "6", "7", "8", "9"}

LowerLetters ==
  {"a", "b", "c", "d", "e", "f", "g", "h", "i", "j", "k", "l", "m",
   "n", "o", "p", "q", "r", "s", "t", "u", "v", "w", "x", "y", "z"}

UpperLetters ==
  {"A", "B", "C", "D", "E", "F", "G", "H", "I", "J", "K", "L", "M",
   "N", "O", "P", "Q", "R", "S", "T", "U", "V", "W", "X", "Y", "Z"}

\* RE_CTRL: U+0000-U+001F and U+007F; TAB stands for the class.
CtrlChars == {"TAB"}

\* RE_BIDI: U+200E, U+200F, U+202A-U+202E, U+2066-U+2069; RLO (U+202E) stands for the class.
BidiChars == {"RLO"}

\* \s of a JavaScript regular expression and the white space String.prototype.trim removes.
SpaceChars == {" ", "TAB", "NBSP"}

\* \w of a JavaScript regular expression.
WordChars == Digits \cup LowerLetters \cup UpperLetters \cup {"_"}

\* The character class of mustPhone: [+()\-\d\s\.]
PhoneChars == Digits \cup SpaceChars \cup {"+", "(", ")", "-", "."}

\* Case folding of the regular expressions' i flag.
Lower(c) ==
  CASE c = "A" -> "a" [] c = "B" -> "b" [] c = "C" -> "c" [] c = "D" -> "d"
    [] c = "E" -> "e" [] c = "F" -> "f" [] c = "G" -> "g" [] c = "H" -> "h"
    [] c = "I" -> "i" [] c = "J" -> "j" [] c = "K" -> "k" [] c = "L" -> "l"
    [] c = "M" -> "m" [] c = "N" -> "n" [] c = "O" -> "o" [] c = "P" -> "p"
    [] c = "Q" -> "q" [] c = "R" -> "r" [] c = "S" -> "s" [] c = "T" -> "t"
    [] c = "U" -> "u" [] c = "V" -> "v" [] c = "W" -> "w" [] c = "X" -> "x"
    [] c = "Y" -> "y" [] c = "Z" -> "z" [] OTHER -> c

\* String.prototype.normalize('NFKC'), character by character: the no-break
\* space and the fullwidth less-than sign have compatibility mappings.
NFKC(c) ==
  CASE c = "NBSP" -> " "
    [] c = "FWLT" -> "<"
    [] OTHER -> c

\* UTF-8 length of one character, as TextEncoder encodes it.
Utf8Len(c) ==
  CASE c \in {"NBSP", "EACUTE"} -> 2
    [] c \in {"RLO", "FWLT", "FFFD"} -> 3
    [] OTHER -> 1

SetMin(S) == CHOOSE m \in S : \A n \in S : m <= n

SetMax(S) == CHOOSE m \in S : \A n \in S : n <= m

\* new TextEncoder().encode(s).length
Utf8Bytes(s) ==
  Len(s) + Cardinality({i \in 1..Len(s) : Utf8Len(s[i]) = 2})
         + 2 * Cardinality({i \in 1..Len(s) : Utf8Len(s[i]) = 3})

\* The string of n copies of the character c.
Rep(c, n) == [i \in 1..n |-> c]

--------------------------------------------------------------------------
(* sanitizeValue on strings.                                               *)

\* The end of the maximal run of characters of class cls that starts at
\* index i of s (i - 1 when the run is empty).
RunEnd(s, i, cls) ==
  LET stops == {j \in i..Len(s) : s[j] \notin cls}
  IN  IF stops = {} THEN Len(s) ELSE SetMin(stops) - 1

\* s has the word w, letters compared case-insensitively, at index i.
HasWordAt(s, i, w) ==
  /\ i + Len(w) - 1 <= Len(s)
  /\ \A k \in 1..Len(w) : Lower(s[i + k - 1]) = w[k]

\* The index where a match of the pattern that starts at index i of s ends,
\* 0 when no match starts there.
\*   "tag": /<[^>]*?>/      "on": /\bon\w+\s*=/i      "js": /javascript\s*:/i
MatchEnd(pat, s, i) ==
  CASE pat = "tag" ->
         IF s[i] # "<" THEN 0
         ELSE LET closes == {j \in (i + 1)..Len(s) : s[j] = ">"}
              IN  IF closes = {} THEN 0 ELSE SetMin(closes)
    [] pat = "on" ->
         IF /\ (i = 1 \/ s[i - 1] \notin WordChars)
            /\ HasWordAt(s, i, <<"o", "n">>)
            /\ i + 2 <= Len(s)
            /\ s[i + 2] \in WordChars
         THEN LET w == RunEnd(s, i + 2, WordChars)
                  e == RunEnd(s, w + 1, SpaceChars) + 1
              IN  IF e <= Len(s) /\ s[e] = "=" THEN e ELSE 0
         ELSE 0
    [] pat = "js" ->
         IF HasWordAt(s, i, <<"j", "a", "v", "a", "s", "c", "r", "i", "p", "t">>)
         THEN LET e == RunEnd(s, i + 10, SpaceChars) + 1
              IN  IF e <= Len(s) /\ s[e] = ":" THEN e ELSE 0
         ELSE 0

\* s.replace(/pat/g, '') from index `from` on: the leftmost match is cut
\* out and the scan goes on behind it.
RECURSIVE ReplaceAll(_, _, _)
ReplaceAll(pat, s, from) ==
  LET starts == {i \in from..Len(s) : MatchEnd(pat, s, i) > 0}
  IN  IF starts = {} THEN SubSeq(s, from, Len(s))
      ELSE LET i == SetMin(starts)
           IN  SubSeq(s, from, i - 1) \o ReplaceAll(pat, s, MatchEnd(pat, s, i) + 1)

\* String.prototype.trim
Trim(s) ==
  LET keep == {i \in 1..Len(s) : s[i] \notin SpaceChars}
  IN  IF keep = {} THEN <<>> ELSE SubSeq(s, SetMin(keep), SetMax(keep))

\* The elements of s that are not in the class cls, in order.
Without(s, cls) == SelectSeq(s, LAMBDA c : c \notin cls)

\* v.normalize('NFKC').replace(RE_CTRL, ' '): each character normalized,
\* then a control character replaced by a space.
NormalizeSpaced(v) ==
  [i \in 1..Len(v) |-> IF NFKC(v[i]) \in CtrlChars THEN " " ELSE NFKC(v[i])]

\* s.replace(/pat/, '') without the g flag: only the leftmost match is cut.
ReplaceFirst(pat, s) ==
  IF \A i \in 1..Len(s) : MatchEnd(pat, s, i) = 0 THEN s
  ELSE SubSeq(s, 1, SetMin({i \in 1..Len(s) : MatchEnd(pat, s, i) > 0}) - 1)
       \o SubSeq(s, MatchEnd(pat, s, SetMin({i \in 1..Len(s) : MatchEnd(pat, s, i) > 0})) + 1,
                 Len(s))

\* sanitizeString with the g flag missing on the tag pattern.
sanitizeStringFirstTagOnly(v) ==
  Trim(ReplaceAll("js",
         ReplaceAll("on",
           ReplaceFirst("tag", Without(NormalizeSpaced(v), BidiChars)), 1), 1))

\* The string branch of sanitizeValue: normalize, control characters to
\* spaces, bidi characters out, tags out, on...= out, javascript: out, trim.
sanitizeString(v) ==
  Trim(ReplaceAll("js",
         ReplaceAll("on",
           ReplaceAll("tag", Without(NormalizeSpaced(v), BidiChars), 1), 1), 1))

--------------------------------------------------------------------------
(* JavaScript values, as JSON.parse produces them and the workers handle   *)
(* them.  An object is its own properties in insertion order and its       *)
(* prototype.                                                              *)

Undefined == [t |-> "undefined"]

Null == [t |-> "null"]

ObjectPrototype == [t |-> "Object.prototype"]

Str(s) == [t |-> "string", s |-> s]

Num(n) == [t |-> "number", n |-> n]

Bool(b) == [t |-> "boolean", b |-> b]

Arr(items) == [t |-> "array", items |-> items]

Obj(props, proto) == [t |-> "object", props |-> props, proto |-> proto]

\* An object literal or a JSON.parse result: its prototype is Object.prototype.
Plain(props) == Obj(props, ObjectPrototype)

Prop(k, v) == [k |-> k, v |-> v]

\* !v
Falsy(v) ==
  \/ v.t \in {"undefined", "null"}
  \/ v.t = "string" /\ v.s = <<>>
  \/ v.t = "number" /\ v.n = 0
  \/ v.t = "boolean" /\ ~v.b

\* typeof v === 'object'
TypeofObject(v) == v.t \in {"object", "array", "null"}

\* Object.keys(v) of an object or an array.
ObjectKeys(v) ==
  CASE v.t = "object" -> [i \in 1..Len(v.props) |-> v.props[i].k]
    [] v.t = "array" -> [i \in 1..Len(v.items) |-> ToString(i - 1)]
    [] OTHER -> <<>>

HasOwn(v, k) == v.t = "object" /\ \E i \in 1..Len(v.props) : v.props[i].k = k

GetOwn(v, k) == v.props[CHOOSE i \in 1..Len(v.props) : v.props[i].k = k].v

\* v[k] for a property name k that is no array index: the own property,
\* else the property found along the prototype chain, else undefined.
RECURSIVE Get(_, _)
Get(v, k) ==
  IF v.t # "object" THEN Undefined
  ELSE IF HasOwn(v, k) THEN GetOwn(v, k)
  ELSE Get(v.proto, k)

\* o[k] = val on an object under construction.  The name __proto__ reaches
\* the setter of Object.prototype, which sets the prototype when val is an
\* object or null and does nothing otherwise; every other name defines an
\* own property.
SetProp(o, k, val) ==
  IF k = "__proto__" /\ ~HasOwn(o, k) /\ o.proto # Null
  THEN IF TypeofObject(val) THEN Obj(o.props, val) ELSE o
  ELSE IF HasOwn(o, k)
       THEN Obj([i \in 1..Len(o.props) |->
                   IF o.props[i].k = k THEN Prop(k, val) ELSE o.props[i]], o.proto)
       ELSE Obj(Append(o.props, Prop(k, val)), o.proto)

\* The decimal digits of a natural number.
RECURSIVE NumStr(_)
NumStr(n) ==
  LET d == <<"0", "1", "2", "3", "4", "5", "6", "7", "8", "9">>
  IN  IF n < 10 THEN <<d[n + 1]>> ELSE Append(NumStr(n \div 10), d[(n % 10) + 1])

\* String(v) throws a TypeError: an object without a toString along its
\* prototype chain, or an array that holds one.
RECURSIVE ToStringThrows(_)
ToStringThrows(v) ==
  CASE v.t = "object" ->
         IF v.proto = Null THEN TRUE
         ELSE IF v.proto = ObjectPrototype THEN FALSE
         ELSE ToStringThrows(v.proto)
    [] v.t = "array" -> \E i \in 1..Len(v.items) : ToStringThrows(v.items[i])
    [] OTHER -> FALSE

\* String(v)
RECURSIVE ToStr(_)
RECURSIVE JoinFrom(_, _)
ToStr(v) ==
  CASE v.t = "string" -> v.s
    [] v.t = "number" -> NumStr(v.n)
    [] v.t = "boolean" -> IF v.b THEN <<"t", "r", "u", "e">> ELSE <<"f", "a", "l", "s", "e">>
    [] v.t = "null" -> <<"n", "u", "l", "l">>
    [] v.t = "undefined" -> <<"u", "n", "d", "e", "f", "i", "n", "e", "d">>
    [] v.t = "array" -> JoinFrom(v.items, 1)
    [] OTHER -> <<"[", "o", "b", "j", "e", "c", "t", " ", "O", "b", "j", "e", "c", "t", "]">>

\* Array.prototype.join(',') from index i on: null and undefined elements
\* give the empty string.
JoinFrom(items, i) ==
  IF i > Len(items) THEN <<>>
  ELSE (IF items[i].t \in {"null", "undefined"} THEN <<>> ELSE ToStr(items[i]))
       \o (IF i < Len(items) THEN <<",">> \o JoinFrom(items, i + 1) ELSE <<>>)

\* sanitizeValue: strings are sanitized, arrays mapped, objects rebuilt
\* property by property into a fresh object literal, everything else kept.
RECURSIVE sanitizeValue(_)
RECURSIVE sanitizeProps(_, _, _)
sanitizeValue(v) ==
  CASE v.t \in {"null", "undefined"} -> v
    [] v.t = "string" -> Str(sanitizeString(v.s))
    [] v.t = "array" -> Arr([i \in 1..Len(v.items) |-> sanitizeValue(v.items[i])])
    [] v.t = "object" -> sanitizeProps(v, 1, Plain(<<>>))
    [] OTHER -> v

\* The loop `for (const k of Object.keys(v)) o[k] = sanitizeValue(v[k])`.
sanitizeProps(v, i, o) ==
  IF i > Len(v.props) THEN o
  ELSE sanitizeProps(v, i + 1, SetProp(o, v.props[i].k, sanitizeValue(v.props[i].v)))

--------------------------------------------------------------------------
(* The form schemas and the schema validator.                              *)

\* A field of a schema; min, max and options left out in the source are 0
\* and <<>> here, which `f.min || 0` and `f.max || 5000` treat alike.
Field(name, type, required, min, max, options) ==
  [name |-> name, type |-> type, required |-> required,
   min |-> min, max |-> max, options |-> options]

INTEREST_OPTIONS ==
  << <<"B", "u", "s", "i", "n", "e", "s", "s", " ", "O", "p", "e", "r", "a", "t", "i", "o", "n", "s">>,
     <<"C", "o", "n", "t", "a", "c", "t", " ", "C", "e", "n", "t", "e", "r">>,
     <<"I", "T", " ", "S", "u", "p", "p", "o", "r", "t">>,
     <<"P", "r", "o", "f", "e", "s", "s", "i", "o", "n", "a", "l", "s">> >>

CONTACT_SCHEMA ==
  << Field("Name", "string", TRUE, 1, 200, <<>>),
     Field("Email", "email", TRUE, 0, 0, <<>>),
     Field("Contact Number", "phone", FALSE, 0, 40, <<>>),
     Field("Preferred Date", "date", FALSE, 0, 0, <<>>),
     Field("Preferred Time", "time", FALSE, 0, 0, <<>>),
     Field("What are you interested in?", "enum", TRUE, 0, 0, INTEREST_OPTIONS),
     Field("Comments", "string", FALSE, 0, 5000, <<>>) >>

JOIN_SCHEMA ==
  << Field("Name", "string", TRUE, 1, 200, <<>>),
     Field("Email", "email", TRUE, 0, 0, <<>>),
     Field("Phone", "phone", FALSE, 0, 40, <<>>),
     Field("Skills", "strArrayCapped", FALSE, 0, 0, <<>>),
     Field("Education", "strArrayCapped", FALSE, 0, 0, <<>>),
     Field("Certification", "strArrayCapped", FALSE, 0, 0, <<>>),
     Field("Hobbies", "strArrayCapped", FALSE, 0, 0, <<>>),
     Field("What are you interested in?", "enum", TRUE, 0, 0, INTEREST_OPTIONS),
     Field("Continued Education", "strArrayCapped", FALSE, 0, 0, <<>>),
     Field("Experience", "strArrayCapped", FALSE, 0, 0, <<>>),
     Field("Tell us about yourself", "string", FALSE, 0, 5000, <<>>) >>

\* The two intake workers; each is a module of its own with its own copy
\* of the helpers.
Workers == {"contact", "join"}

SchemaOf(worker) == IF worker = "contact" THEN CONTACT_SCHEMA ELSE JOIN_SCHEMA

\* The case labels of the switch in the contact worker's validateAgainstSchema.
ContactTypes == {"string", "email", "phone", "date", "time", "enum"}

\* The case labels of the switch in the join worker's validateAgainstSchema.
JoinTypes == {"string", "email", "phone", "enum", "strArrayCapped"}

\* The functions each worker's module defines and calls in its try block.
ContactHelpers == {"validateAgainstSchema", "sanitizeValue"}

JoinHelpers == {"validateAgainstSchema", "sanitizeValue", "enforceByteLimits"}

\* A function's normal return and a thrown Error.  An error names its
\* message pattern, the field or key it is about and, for an item of an
\* array field, the item's index (-1 otherwise).
Ok(v) == [ok |-> TRUE, v |-> v]

Throw(kind, name, index) == [ok |-> FALSE, kind |-> kind, name |-> name, index |-> index]

\* A field name as the must* functions receive it: `Name` or `Skills[2]`.
Label(name, index) == [name |-> name, index |-> index]

\* The length checks of mustStr on the sanitized string t.
lengthChecked(t, min, max, field) ==
  IF Len(t) < min THEN Throw("too short", field.name, field.index)
  ELSE IF Len(t) > max THEN Throw("too long", field.name, field.index)
  ELSE Ok(Str(t))

mustStr(v, min, max, field) ==
  IF v.t # "string" THEN Throw("invalid", field.name, field.index)
  ELSE lengthChecked(sanitizeString(v.s), min, max, field)

\* String(v) as the argument of mustStr: a TypeError when the conversion throws.
mustStrOfString(v, min, max, field) ==
  IF ToStringThrows(v) THEN Throw("TypeError", field.name, field.index)
  ELSE mustStr(Str(ToStr(v)), min, max, field)

\* /^[^\s@]+@[^\s@]+\.[^\s@]+$/
EmailShape(s) ==
  /\ \A i \in 1..Len(s) : s[i] \notin SpaceChars
  /\ Cardinality({i \in 1..Len(s) : s[i] = "@"}) = 1
  /\ LET at == CHOOSE i \in 1..Len(s) : s[i] = "@"
     IN  /\ at > 1
         /\ \E d \in (at + 2)..(Len(s) - 1) : s[d] = "."

\* /^[+()\-\d\s\.]{4,}$/
PhoneShape(s) == Len(s) >= 4 /\ \A i \in 1..Len(s) : s[i] \in PhoneChars

\* /^\d{4}-\d{2}-\d{2}$/
DateShape(s) ==
  /\ Len(s) = 10
  /\ \A i \in {1, 2, 3, 4, 6, 7, 9, 10} : s[i] \in Digits
  /\ s[5] = "-" /\ s[8] = "-"

\* /^\d{2}:\d{2}$/
TimeShape(s) ==
  /\ Len(s) = 5
  /\ \A i \in {1, 2, 4, 5} : s[i] \in Digits
  /\ s[3] = ":"

\* The test a must* function makes on the string s that mustStr returned.
ShapeOk(type, s, options) ==
  CASE type = "email" -> EmailShape(s)
    [] type = "phone" -> s = <<>> \/ PhoneShape(s)
    [] type = "date" -> s = <<>> \/ DateShape(s)
    [] type = "time" -> s = <<>> \/ TimeShape(s)
    [] type = "enum" -> \E i \in 1..Len(options) : options[i] = s

\* The tail of a must* function: the error of mustStr goes on, a string
\* that fails the test is `invalid <field>`, any other string is returned.
shapeChecked(r, type, options, field) ==
  IF ~r.ok THEN r
  ELSE IF ~ShapeOk(type, r.v.s, options) THEN Throw("invalid", field.name, field.index)
  ELSE r

\* mustEmail with one character more allowed.
mustEmailMax255(v, field) == shapeChecked(mustStrOfString(v, 3, 255, field), "email", <<>>, field)

mustEmail(v, field) == shapeChecked(mustStrOfString(v, 3, 254, field), "email", <<>>, field)

mustPhone(v, field, max) == shapeChecked(mustStrOfString(v, 0, max, field), "phone", <<>>, field)

mustDate(v, field) == shapeChecked(mustStrOfString(v, 0, 20, field), "date", <<>>, field)

mustTime(v, field) == shapeChecked(mustStrOfString(v, 0, 20, field), "time", <<>>, field)

mustEnum(v, options, field) == shapeChecked(mustStrOfString(v, 1, 200, field), "enum", options, field)

\* The defaults of strArrayCapped's options.
maxItems == 50

maxItemBytes == 5000

maxTotalBytes == 20000

\* The callback of v.map in strArrayCapped from item i on; `total` is the
\* running byte count and `acc` the items mapped so far.
RECURSIVE strArrayItems(_, _, _, _, _)
RECURSIVE strArrayItem(_, _, _, _, _, _)
strArrayItems(v, field, i, total, acc) ==
  IF i > Len(v.items) THEN Ok(Arr(acc))
  ELSE strArrayItem(v, field, i, total, acc,
                    mustStrOfString(v.items[i], 0, maxItemBytes, Label(field, i - 1)))

\* The rest of the callback for item i once mustStr has returned r.
strArrayItem(v, field, i, total, acc, r) ==
  IF ~r.ok THEN r
  ELSE IF Utf8Bytes(r.v.s) > maxItemBytes THEN Throw("too large", field, i - 1)
  ELSE IF total + Utf8Bytes(r.v.s) > maxTotalBytes THEN Throw("total size too large", field, -1)
  ELSE strArrayItems(v, field, i + 1, total + Utf8Bytes(r.v.s), Append(acc, r.v))

\* strArrayCapped with the count compared one too high.
strArrayCappedOffByOne(v, field) ==
  IF Falsy(v) THEN Ok(Arr(<<>>))
  ELSE IF v.t # "array" THEN Throw("invalid", field, -1)
  ELSE IF Len(v.items) > maxItems + 1 THEN Throw("has too many items", field, -1)
  ELSE strArrayItems(v, field, 1, 0, <<>>)

strArrayCapped(v, field) ==
  IF Falsy(v) THEN Ok(Arr(<<>>))
  ELSE IF v.t # "array" THEN Throw("invalid", field, -1)
  ELSE IF Len(v.items) > maxItems THEN Throw("has too many items", field, -1)
  ELSE strArrayItems(v, field, 1, 0, <<>>)

\* MissingOrEmpty without the comparison to '': only undefined and null.
MissingOnly(v) == v.t \in {"undefined", "null"}

\* v === undefined || v === null || v === ''
MissingOrEmpty(v) == v.t \in {"undefined", "null"} \/ (v.t = "string" /\ v.s = <<>>)

\* The body of the loop over schema.fields for one field f with value v:
\* the value stored in out[f.name], or the error thrown.
validateField(worker, f, v) ==
  IF f.required /\ MissingOrEmpty(v) THEN Throw("missing", f.name, -1)
  ELSE IF MissingOrEmpty(v)
       THEN Ok(IF f.type = "strArrayCapped" THEN Arr(<<>>) ELSE Str(<<>>))
  ELSE IF f.type \notin (IF worker = "contact" THEN ContactTypes ELSE JoinTypes)
       THEN Throw("unknown type", f.type, -1)
  ELSE CASE f.type = "string" ->
              mustStr(v, f.min, IF f.max = 0 THEN 5000 ELSE f.max, Label(f.name, -1))
         [] f.type = "email" -> mustEmail(v, Label(f.name, -1))
         [] f.type = "phone" -> mustPhone(v, Label(f.name, -1), IF f.max = 0 THEN 40 ELSE f.max)
         [] f.type = "date" -> mustDate(v, Label(f.name, -1))
         [] f.type = "time" -> mustTime(v, Label(f.name, -1))
         [] f.type = "enum" -> mustEnum(v, f.options, Label(f.name, -1))
         [] f.type = "strArrayCapped" -> strArrayCapped(v, f.name)

\* The loop `for (const f of schema.fields)` from field i on, with the
\* output object built so far.
RECURSIVE validateLoop(_, _, _, _, _)
RECURSIVE validateStep(_, _, _, _, _, _)
validateLoop(worker, schema, fields, i, out) ==
  IF i > Len(schema) THEN Ok(out)
  ELSE validateStep(worker, schema, fields, i, out,
                    validateField(worker, schema[i], Get(fields, schema[i].name)))

\* validateStep with a bare `continue` for a missing optional field: its
\* default is not stored in out.
validateStepSkipsDefault(worker, schema, fields, i, out, r) ==
  IF ~r.ok THEN r
  ELSE validateLoop(worker, schema, fields, i + 1,
                    IF MissingOrEmpty(Get(fields, schema[i].name)) THEN out
                    ELSE SetProp(out, schema[i].name, r.v))

\* validateStep that keeps the error and goes on: the error of the last
\* invalid field is the one thrown.
validateStepLastError(worker, schema, fields, i, out, r) ==
  IF ~r.ok
  THEN IF validateLoop(worker, schema, fields, i + 1, out).ok THEN r
       ELSE validateLoop(worker, schema, fields, i + 1, out)
  ELSE validateLoop(worker, schema, fields, i + 1, SetProp(out, schema[i].name, r.v))

\* The end of one round of the loop: the error r is thrown, or the value
\* of r is stored in out and the loop goes on.
validateStep(worker, schema, fields, i, out, r) ==
  IF ~r.ok THEN r
  ELSE validateLoop(worker, schema, fields, i + 1, SetProp(out, schema[i].name, r.v))

\* The keys of `fields` that the schema does not declare, in key order.
UnexpectedKeys(schema, fields) ==
  LET allowed == {schema[i].name : i \in 1..Len(schema)}
  IN  SelectSeq(ObjectKeys(fields), LAMBDA k : k \notin allowed)

\* validateAgainstSchema of the worker's module.
validateAgainstSchema(worker, formName, schema, fields) ==
  IF formName # worker THEN Throw("wrong_form", "", -1)
  ELSE IF UnexpectedKeys(schema, fields) # <<>>
       THEN Throw("unexpected field", Head(UnexpectedKeys(schema, fields)), -1)
  ELSE validateLoop(worker, schema, fields, 1, Plain(<<>>))

\* walk without its recursion: only a value that is itself a string is
\* measured.
ExceedsBytesShallow(v, maxBytesPerField) ==
  v.t = "string" /\ Utf8Bytes(v.s) > maxBytesPerField

\* walk of enforceByteLimits: some string in v, reached through arrays and
\* the own properties of objects, is longer than maxBytesPerField bytes.
RECURSIVE ExceedsBytes(_, _)
ExceedsBytes(v, maxBytesPerField) ==
  CASE v.t = "string" -> Utf8Bytes(v.s) > maxBytesPerField
    [] v.t = "array" -> \E i \in 1..Len(v.items) : ExceedsBytes(v.items[i], maxBytesPerField)
    [] v.t = "object" -> \E i \in 1..Len(v.props) : ExceedsBytes(v.props[i].v, maxBytesPerField)
    [] OTHER -> FALSE

\* The call enforceByteLimits(obj, maxBytesPerField) in a worker's module:
\* only the join worker's module defines the function, elsewhere the call
\* throws a ReferenceError.
enforceByteLimits(worker, obj, maxBytesPerField) ==
  IF "enforceByteLimits" \notin (IF worker = "contact" THEN ContactHelpers ELSE JoinHelpers)
  THEN Throw("ReferenceError", "enforceByteLimits", -1)
  ELSE IF ExceedsBytes(obj, maxBytesPerField)
       THEN Throw("field exceeds", "", maxBytesPerField)
  ELSE Ok(obj)

--------------------------------------------------------------------------
(* Configuration (env), requests and the helpers of the fetch handler.     *)

\* String.prototype.split(sep) on a sequence of characters.
RECURSIVE Split(_, _)
Split(s, sep) ==
  LET at == {i \in 1..Len(s) : s[i] = sep}
  IN  IF at = {} THEN <<s>>
      ELSE <<SubSeq(s, 1, SetMin(at) - 1)>> \o Split(SubSeq(s, SetMin(at) + 1, Len(s)), sep)

\* a || b
OrElse(a, b) == IF Falsy(a) THEN b ELSE a

\* The value of a run of decimal digits.
RECURSIVE DigitsValue(_)
DigitsValue(ds) ==
  LET val == [c \in Digits |->
                CASE c = "0" -> 0 [] c = "1" -> 1 [] c = "2" -> 2 [] c = "3" -> 3
                  [] c = "4" -> 4 [] c = "5" -> 5 [] c = "6" -> 6 [] c = "7" -> 7
                  [] c = "8" -> 8 [] c = "9" -> 9]
  IN  IF ds = <<>> THEN 0
      ELSE 10 * DigitsValue(SubSeq(ds, 1, Len(ds) - 1)) + val[ds[Len(ds)]]

\* toInt(s) = parseInt(String(s), 10) || 0: leading white space is skipped,
\* a sign is read, then the longest run of digits; no digits is NaN, and
\* NaN || 0 is 0.
toInt(v) ==
  LET s == ToStr(v)
      lead == RunEnd(s, 1, SpaceChars)
      signed == lead + 1 <= Len(s) /\ s[lead + 1] \in {"+", "-"}
      from == IF signed THEN lead + 2 ELSE lead + 1
      to == RunEnd(s, from, Digits)
      n == DigitsValue(SubSeq(s, from, to))
  IN  IF to < from THEN 0
      ELSE IF signed /\ s[lead + 1] = "-" THEN 0 - n ELSE n

\* isAllowedOrigin(env, origin): the origin is not empty and is an entry of
\* ALLOWED_ORIGINS split at commas, each entry trimmed, empty entries dropped.
\* An origin is one character of the configuration string.
isAllowedOrigin(env, origin) ==
  LET raw == Split(ToStr(OrElse(env.ALLOWED_ORIGINS, Str(<<>>))), ",")
      list == SelectSeq([i \in 1..Len(raw) |-> Trim(raw[i])], LAMBDA e : e # <<>>)
  IN  origin # "" /\ \E i \in 1..Len(list) : list[i] = <<origin>>

\* cors(env, origin): the security headers, and the CORS headers for an
\* allowed origin.
\* cors with the four security headers set only next to the CORS headers.
corsAllowedOnly(env, origin) ==
  IF isAllowedOrigin(env, origin)
  THEN ("Access-Control-Allow-Origin" :> origin)
       @@ ("Vary" :> "Origin")
       @@ ("Access-Control-Allow-Methods" :> "POST, OPTIONS, GET")
       @@ ("Access-Control-Allow-Headers" :> "content-type")
       @@ ("X-Content-Type-Options" :> "nosniff")
       @@ ("X-Frame-Options" :> "DENY")
       @@ ("Referrer-Policy" :> "no-referrer")
       @@ ("Permissions-Policy" :> "geolocation=(), microphone=(), camera=()")
  ELSE << >>

cors(env, origin) ==
  LET h == ("X-Content-Type-Options" :> "nosniff")
           @@ ("X-Frame-Options" :> "DENY")
           @@ ("Referrer-Policy" :> "no-referrer")
           @@ ("Permissions-Policy" :> "geolocation=(), microphone=(), camera=()")
  IN  IF isAllowedOrigin(env, origin)
      THEN ("Access-Control-Allow-Origin" :> origin)
           @@ ("Vary" :> "Origin")
           @@ ("Access-Control-Allow-Methods" :> "POST, OPTIONS, GET")
           @@ ("Access-Control-Allow-Headers" :> "content-type")
           @@ h
      ELSE h

\* new Response(body, {status}) throws: a RangeError for a status outside
\* 200..599, a TypeError for a body with a null body status.
ResponseThrows(status, hasBody) ==
  \/ status < 200 \/ status > 599
  \/ hasBody /\ status \in {204, 205, 304}

\* json(body, status, headers)
json(body, status, headers) ==
  [status |-> status, body |-> body,
   headers |-> ("content-type" :> "application/json") @@ ("cache-control" :> "no-store") @@ headers]

\* The preflight response: no body, the CORS headers and a max age.
preflight(headers) ==
  [status |-> 204, body |-> Null, headers |-> ("Access-Control-Max-Age" :> "600") @@ headers]

NoResponse == [status |-> 0]

\* The byte length of a property name in a JSON text.
KeyBytes(k) ==
  CASE k = "Name" -> 4 [] k = "Email" -> 5 [] k = "Phone" -> 5 [] k = "Extra" -> 5
    [] k = "form" -> 4 [] k = "fields" -> 6 [] k = "__proto__" -> 9
    [] k = "Contact Number" -> 14 [] k = "Preferred Date" -> 14 [] k = "Preferred Time" -> 14
    [] k = "What are you interested in?" -> 27 [] k = "Comments" -> 8
    [] k = "Skills" -> 6 [] k = "Education" -> 9 [] k = "Certification" -> 13
    [] k = "Hobbies" -> 7 [] k = "Continued Education" -> 19 [] k = "Experience" -> 10
    [] k = "Tell us about yourself" -> 22
    [] k = "schema" -> 6 [] k = "asset_id" -> 8

\* The sum of f[i] over i in 1..n.
RECURSIVE SumTo(_, _)
SumTo(f, n) == IF n = 0 THEN 0 ELSE f[n] + SumTo(f, n - 1)

\* The byte length of the shortest JSON text of a value: a control
\* character takes its two-byte escape.
RECURSIVE JsonBytes(_)
JsonBytes(v) ==
  CASE v.t = "string" ->
         2 + Utf8Bytes(v.s) + Cardinality({i \in 1..Len(v.s) : v.s[i] \in CtrlChars})
    [] v.t = "number" -> Len(NumStr(v.n))
    [] v.t = "boolean" -> IF v.b THEN 4 ELSE 5
    [] v.t = "null" -> 4
    [] v.t = "array" ->
         2 + SumTo([i \in 1..Len(v.items) |-> JsonBytes(v.items[i])], Len(v.items))
           + (IF Len(v.items) > 1 THEN Len(v.items) - 1 ELSE 0)
    [] v.t = "object" ->
         2 + SumTo([i \in 1..Len(v.props) |->
                      KeyBytes(v.props[i].k) + 3 + JsonBytes(v.props[i].v)], Len(v.props))
           + (IF Len(v.props) > 1 THEN Len(v.props) - 1 ELSE 0)

\* What a request body decodes to: the empty text, a text that is no JSON,
\* or the JSON text of a value.
EmptyText == [t |-> "empty"]

Malformed == [t |-> "malformed"]

\* A request body: the content its text holds, the white space that pads
\* the text, whether the bytes start with a UTF-8 byte order mark, and how
\* many U+FFFD of the content stand for one undecodable byte each.
Body(content, pad, bom, bad) ==
  [kind |-> "bytes", content |-> content, pad |-> pad, bom |-> bom, bad |-> bad]

\* A body whose stream fails while it is read.
BrokenBody == [kind |-> "broken"]

\* byteLen of the text of a body, as request.text() decodes it: the byte
\* order mark is dropped, an undecodable byte has become U+FFFD.
TextBytes(body) ==
  body.pad + (CASE body.content = EmptyText -> 0
                [] body.content = Malformed -> 1
                [] OTHER -> JsonBytes(body.content))

\* The number of bytes of the body on the wire.
RawBytes(body) == TextBytes(body) - 2 * body.bad + (IF body.bom THEN 3 ELSE 0)

\* request.text(): the text is kept as its byte length and its content.
text(body) == [bytes |-> TextBytes(body), content |-> body.content]

\* byteLen(s)
byteLen(s) == s.bytes

\* JSON.parse(bodyText || '{}'): the value, or a thrown SyntaxError.
JSONparse(bodyText) ==
  CASE bodyText.content = EmptyText -> Ok(Plain(<<>>))
    [] bodyText.content = Malformed -> Throw("SyntaxError", "", -1)
    [] OTHER -> Ok(bodyText.content)

\* (input && typeof input === 'object' && 'form' in input) ? input.fields : input
shapeOf(input) ==
  IF ~Falsy(input) /\ TypeofObject(input) /\ HasOwn(input, "form")
  THEN Get(input, "fields")
  ELSE input

\* env.ASSET_ID || 'ops-<worker>-intake'
assetId(worker, env) ==
  IF env.ASSET_ID # "" THEN env.ASSET_ID
  ELSE IF worker = "contact" THEN "ops-contact-intake" ELSE "ops-join-intake"

\* The envelope built from the validated fields; the timestamp is not modelled.
envelopeOf(worker, env, fields) ==
  [schema |-> "ops.v1", asset_id |-> assetId(worker, env), form |-> worker, fields |-> fields]

\* The branch of the forwarding code the configuration selects: the service
\* binding, the URL, or neither.
transitChannel(env) ==
  IF env.TRANSIT = "binding" THEN "binding"
  ELSE IF env.TRANSIT_URL # "" THEN "url"
  ELSE "none"

\* new URL('/core', env.TRANSIT_URL) throws a TypeError.
UrlThrows(url) == url = "not a url"

--------------------------------------------------------------------------
(* The inputs: configurations, requests, bodies and field maps.            *)

\* The number of fields of a submitted map that differ from the valid base
\* map, in the inputs of the validator.
MaxOverrides == 2

Jo == Str(<<"J", "o">>)

GoodEmail == Str(<<"a", "@", "b", ".", "c", "o">>)

ITSupport == Str(INTEREST_OPTIONS[3])

\* Sanitizes to the empty string.
OnlyMarkup == Str(<<" ", "<", "b", ">">>)

Nope == Str(<<"n", "o", "p", "e">>)

\* Twelve bytes: a valid free-text value above a MAX_FIELD_BYTES of 10.
LongText == Str(<<"h", "e", "l", "l", "o", " ", "w", "o", "r", "l", "d", "!">>)

\* A field left out of the submitted map.
Absent == [t |-> "absent"]

FieldNames(worker) == [i \in 1..Len(SchemaOf(worker)) |-> SchemaOf(worker)[i].name]

FieldByName(worker, k) ==
  SchemaOf(worker)[CHOOSE i \in 1..Len(SchemaOf(worker)) : SchemaOf(worker)[i].name = k]

\* A valid value of a field of the given type.
Good(type) ==
  CASE type = "string" -> Jo
    [] type = "email" -> GoodEmail
    [] type = "phone" -> Str(<<"+", "1", " ", "5", "5", "5">>)
    [] type = "date" -> Str(<<"2", "0", "2", "5", "-", "0", "1", "-", "3", "1">>)
    [] type = "time" -> Str(<<"0", "9", ":", "3", "0">>)
    [] type = "enum" -> ITSupport
    [] type = "strArrayCapped" -> Arr(<<Str(<<"a", " ">>), Num(12)>>)

\* The keys a submitted map may hold, in the order they appear in it: an
\* undeclared key, the schema's fields, the key __proto__.
KeyOrder(worker) == <<"Extra">> \o FieldNames(worker) \o <<"__proto__">>

Declared(worker, k) == \E i \in 1..Len(SchemaOf(worker)) : SchemaOf(worker)[i].name = k

\* The base map: the required fields with valid values, nothing else.
BaseValue(worker, k) ==
  IF Declared(worker, k) /\ FieldByName(worker, k).required
  THEN Good(FieldByName(worker, k).type)
  ELSE Absent

BaseProps(worker) ==
  LET names == SelectSeq(FieldNames(worker), LAMBDA k : BaseValue(worker, k) # Absent)
  IN  [i \in 1..Len(names) |-> Prop(names[i], BaseValue(worker, names[i]))]

AltIndex == {"empty", "invalid", "other"}

\* The values that replace the base value of key k: for a declared field a
\* string that sanitizes to the empty string, a value its type rejects, and
\* null, a long text or a valid array.
Alt(worker, k, n) ==
  CASE k = "Extra" -> Str(<<"x">>)
    [] k = "__proto__" ->
         (CASE n = "empty" -> Str(<<"x">>) [] n = "invalid" -> Null
            [] OTHER -> Plain(BaseProps(worker)))
    [] OTHER ->
         LET f == FieldByName(worker, k)
         IN  CASE n = "empty" -> OnlyMarkup
               [] n = "invalid" -> IF f.type = "string" THEN Num(7) ELSE Nope
               [] OTHER -> IF f.required \/ f.type \in {"phone", "date", "time"} THEN Null
                           ELSE IF f.type = "string" THEN LongText ELSE Good(f.type)

\* The submitted map that differs from the base map on the keys S as f says.
MakeMap(worker, S, f) ==
  LET val(k) == IF k \in S THEN Alt(worker, k, f[k]) ELSE BaseValue(worker, k)
      keys == SelectSeq(KeyOrder(worker), LAMBDA k : val(k) # Absent)
  IN  Plain([i \in 1..Len(keys) |-> Prop(keys[i], val(keys[i]))])

KeySet(worker) == {KeyOrder(worker)[i] : i \in 1..Len(KeyOrder(worker))}

\* The maps with at most n overridden keys.
Maps(worker, n) ==
  UNION {{MakeMap(worker, S, f) : f \in [S -> AltIndex]} :
           S \in {T \in SUBSET KeySet(worker) : Cardinality(T) <= n}}

\* The maps with one overridden key, or none.
NearBaseMaps(worker) ==
  UNION {{MakeMap(worker, S, f) : f \in [S -> AltIndex]} :
           S \in {{}} \cup {{k} : k \in KeySet(worker)}}

\* A name with U+FFFD in it.
NameWithFFFD == Str(<<"J", "o", "FFFD">>)

WithFFFD(worker) ==
  Plain([i \in 1..Len(BaseProps(worker)) |->
           IF BaseProps(worker)[i].k = "Name" THEN Prop("Name", NameWithFFFD)
           ELSE BaseProps(worker)[i]])

\* What the text of a request body may hold.
Contents(worker) ==
  NearBaseMaps(worker)
  \cup {EmptyText, Malformed, Null, Num(7), Str(<<"x">>), Arr(<<>>), Arr(<<Jo>>)}
  \cup {Plain(<<Prop("form", Str(<<"j", "o", "i", "n">>)), Prop("fields", Plain(BaseProps(worker)))>>),
        Plain(<<Prop("form", Str(<<"x">>))>>),
        Plain(<<Prop("form", Null), Prop("fields", Str(<<"x">>))>>)}

\* The contents whose bodies are also sent padded to the size limit.
SizedContents(worker) == {Plain(BaseProps(worker)), WithFFFD(worker), Malformed}

CountFFFD(content) ==
  IF content = Malformed \/ content = EmptyText \/ content.t # "object" THEN 0
  ELSE Cardinality({i \in 1..Len(content.props) :
                      /\ content.props[i].v.t = "string"
                      /\ \E j \in 1..Len(content.props[i].v.s) : content.props[i].v.s[j] = "FFFD"})

\* The bodies a request to the worker may carry when the size limit is `limit`.
Bodies(worker, limit) ==
  {BrokenBody}
  \cup {Body(c, 0, FALSE, 0) : c \in Contents(worker)}
  \cup {Body(EmptyText, 0, TRUE, 0)}
  \cup UNION {{Body(c, target - TextBytes(Body(c, 0, FALSE, 0)), bom, bad) :
                 target \in {t \in {limit, limit + 1} : t >= TextBytes(Body(c, 0, FALSE, 0))},
                 bom \in BOOLEAN, bad \in 0..CountFFFD(c)} :
              c \in SizedContents(worker)}

OpsOrigin == "https://ops.example"

\* The Origin header of a request; "" when there is none.
Origins == {"", OpsOrigin, "https://evil.example", "*"}

AllowedOriginsSettings ==
  {Undefined, Str(<<OpsOrigin>>), Str(<<OpsOrigin, ",", " ", "*", " ", ",">>)}

Digits256000 == Str(<<"2", "5", "6", "0", "0", "0">>)

Digits5000 == Str(<<"5", "0", "0", "0">>)

\* MAX_BODY_BYTES, MAX_FIELD_BYTES, TRANSIT and TRANSIT_URL together.
Tunings ==
  {<<Undefined, Undefined, t, u>> :
     t \in {"", "binding", "plain"}, u \in {"", "https://transit.example", "not a url"}}
  \cup {<<Str(<<"8", "0">>), Undefined, "binding", "">>,
        <<Str(<<"a", "b", "c">>), Undefined, "binding", "">>,
        <<Undefined, Str(<<"1", "0">>), "binding", "">>,
        <<Undefined, Str(<<"1", "0">>), "", "">>}

Envs ==
  {[ALLOWED_ORIGINS |-> a, MAX_BODY_BYTES |-> t[1], MAX_FIELD_BYTES |-> t[2],
    TRANSIT |-> t[3], TRANSIT_URL |-> t[4], ASSET_ID |-> ""] :
     a \in AllowedOriginsSettings, t \in Tunings}

Methods == {"OPTIONS", "GET", "POST"}

Paths == {"/.well-known/health", "/ingress/contact", "/ingress/join", "/other"}

\* What the downstream does with a call: it throws (unreachable), or it
\* replies with a status.
Outcomes ==
  {[kind |-> "threw", status |-> 0]}
  \cup {[kind |-> "replied", status |-> st] : st \in {200, 202, 304, 400, 500}}

--------------------------------------------------------------------------
(* The fetch handler of an intake worker, one request at a time.           *)

VARIABLES
  worker,     \* the worker that handles the request: "contact" or "join"
  env,        \* its configuration
  request,    \* the request: method, path, Origin header, body
  pc,         \* where the handler stands
  bodyText,   \* the text read from the body
  input,      \* the parsed JSON
  shape,      \* the submitted field map
  fields,     \* the validated fields
  envelope,   \* the envelope built for the downstream
  calls,      \* the downstream calls made so far
  outcome,    \* what the downstream did with the call, None before it settles
  response,   \* the response returned, NoResponse while there is none
  call,       \* a helper function called on its own: its name and argument
  results,    \* what the calls of the helper returned or threw, in order
  steps,      \* the steps of the ingress branch performed so far
  handlers,   \* the requests one worker instance handles at the same time
  isolate,    \* the module-level state of that worker instance
  server,     \* the Express server: its process, sessions and clock
  page        \* the join form in the browser

vars ==
  <<worker, env, request, pc, bodyText, input, shape, fields, envelope, calls, outcome,
    response, call, results, steps, handlers, isolate, server, page>>

\* The variables of one request to a worker, handled on its own.
workerVars ==
  <<worker, env, request, pc, bodyText, input, shape, fields, envelope, calls, outcome,
    response, call, results, steps>>

None == [t |-> "none"]

\* The limits the handler reads from its configuration.
maxBodyBytes(e) == toInt(OrElse(e.MAX_BODY_BYTES, Digits256000))

maxFieldBytes(e) == toInt(OrElse(e.MAX_FIELD_BYTES, Digits5000))

corsHeaders == cors(env, request.origin)

IngressPath(w) == IF w = "contact" THEN "/ingress/contact" ELSE "/ingress/join"

Init ==
  /\ worker \in Workers
  /\ env \in Envs
  /\ request \in [method : Methods, path : Paths, origin : Origins, body : {None}]
  /\ pc = "start"
  /\ bodyText = None
  /\ input = None
  /\ shape = None
  /\ fields = None
  /\ envelope = None
  /\ calls = <<>>
  /\ outcome = None
  /\ response = NoResponse
  /\ call = None
  /\ results = <<>>
  /\ steps = <<>>
  /\ handlers = <<>>
  /\ isolate = None
  /\ server = None
  /\ page = None

\* return <response>
Return(r) ==
  /\ response' = r
  /\ pc' = "done"

\* The dispatch on method and path at the head of fetch.
Route ==
  /\ pc = "start"
  /\ worker \in Workers
  /\ IF request.method = "OPTIONS" THEN Return(preflight(corsHeaders))
     ELSE IF request.method = "GET" /\ request.path = "/.well-known/health"
       THEN Return(json([ok |-> TRUE, service |-> assetId(worker, env), version |-> "0.1.0"],
                        200, corsHeaders))
     ELSE IF request.method = "POST" /\ request.path = IngressPath(worker)
       THEN pc' = "origin" /\ response' = response
     ELSE Return(json([error |-> "not_found"], 404, corsHeaders))
  /\ UNCHANGED <<handlers, isolate, server, page, call, results, outcome, worker, env, request, bodyText, input, shape, fields, envelope, calls, steps>>

\* if (!isAllowedOrigin(env, origin)) return 403
CheckOrigin ==
  /\ pc = "origin"
  /\ steps' = Append(steps, "origin")
  /\ IF ~isAllowedOrigin(env, request.origin)
     THEN Return(json([error |-> "forbidden_origin"], 403, corsHeaders))
     ELSE pc' = "read" /\ response' = response
  /\ UNCHANGED <<handlers, isolate, server, page, call, results, outcome, worker, env, request, bodyText, input, shape, fields, envelope, calls>>

\* bodyText = await request.text(), 400 read_error when it rejects.  The
\* body is what arrives on the stream.
ReadBody ==
  /\ pc = "read"
  /\ worker \in Workers
  /\ steps' = Append(steps, "read")
  /\ \E b \in Bodies(worker, maxBodyBytes(env)) :
       /\ request' = [request EXCEPT !.body = b]
       /\ IF b = BrokenBody
          THEN /\ Return(json([error |-> "read_error"], 400, corsHeaders))
               /\ bodyText' = bodyText
          ELSE /\ bodyText' = text(b)
               /\ pc' = "size"
               /\ response' = response
  /\ UNCHANGED <<handlers, isolate, server, page, call, results, outcome, worker, env, input, shape, fields, envelope, calls>>

\* CheckSize with the return dropped: the size is measured and the handler
\* goes on to parse whatever the size.
CheckSizeNoReturn ==
  /\ pc = "size"
  /\ steps' = Append(steps, "size")
  /\ pc' = "parse"
  /\ UNCHANGED <<handlers, isolate, server, page, call, results, outcome, worker, env, request, bodyText, input, shape, fields, envelope, calls,
                 response>>

\* if (byteLen(bodyText) > toInt(env.MAX_BODY_BYTES || '256000')) return 413
CheckSize ==
  /\ pc = "size"
  /\ steps' = Append(steps, "size")
  /\ IF byteLen(bodyText) > maxBodyBytes(env)
     THEN Return(json([error |-> "payload_too_large"], 413, corsHeaders))
     ELSE pc' = "parse" /\ response' = response
  /\ UNCHANGED <<handlers, isolate, server, page, call, results, outcome, worker, env, request, bodyText, input, shape, fields, envelope, calls>>

\* input = JSON.parse(bodyText || '{}'), 400 invalid_json when it throws
ParseJson ==
  /\ pc = "parse"
  /\ worker \in Workers
  /\ steps' = Append(steps, "parse")
  /\ \E r \in {JSONparse(bodyText)} :
       IF ~r.ok
       THEN Return(json([error |-> "invalid_json"], 400, corsHeaders)) /\ input' = input
       ELSE pc' = "shape" /\ input' = r.v /\ response' = response
  /\ UNCHANGED <<handlers, isolate, server, page, call, results, outcome, worker, env, request, bodyText, shape, fields, envelope, calls>>

\* shape = ..., 400 invalid_payload unless it is an object
ExtractShape ==
  /\ pc = "shape"
  /\ steps' = Append(steps, "shape")
  /\ IF Falsy(shapeOf(input)) \/ ~TypeofObject(shapeOf(input))
     THEN Return(json([error |-> "invalid_payload"], 400, corsHeaders)) /\ shape' = shape
     ELSE pc' = "validate" /\ shape' = shapeOf(input) /\ response' = response
  /\ UNCHANGED <<handlers, isolate, server, page, call, results, outcome, worker, env, request, bodyText, input, fields, envelope, calls>>

\* The catch clause of the validation: 400 validation_error with the message.
validationError(e) ==
  json([error |-> "validation_error", message |-> [kind |-> e.kind, name |-> e.name, index |-> e.index]],
       400, corsHeaders)

\* fields = validateAgainstSchema(form, SCHEMA, sanitizeValue(shape))
Validate ==
  /\ pc = "validate"
  /\ steps' = Append(steps, "validate")
  /\ \E r \in {validateAgainstSchema(worker, worker, SchemaOf(worker), sanitizeValue(shape))} :
       IF ~r.ok
       THEN Return(validationError(r)) /\ fields' = fields
       ELSE pc' = "limits" /\ fields' = r.v /\ response' = response
  /\ UNCHANGED <<handlers, isolate, server, page, call, results, outcome, worker, env, request, bodyText, input, shape, envelope, calls>>

\* enforceByteLimits(fields, toInt(env.MAX_FIELD_BYTES || '5000')), in the same try block
EnforceLimits ==
  /\ pc = "limits"
  /\ steps' = Append(steps, "limits")
  /\ \E r \in {enforceByteLimits(worker, fields, maxFieldBytes(env))} :
       IF ~r.ok
       THEN Return(validationError(r))
       ELSE pc' = "envelope" /\ response' = response
  /\ UNCHANGED <<handlers, isolate, server, page, call, results, outcome, worker, env, request, bodyText, input, shape, fields, envelope, calls>>

\* const envelope = {...}
BuildEnvelope ==
  /\ pc = "envelope"
  /\ steps' = Append(steps, "envelope")
  /\ envelope' = envelopeOf(worker, env, fields)
  /\ pc' = "forward"
  /\ UNCHANGED <<handlers, isolate, server, page, call, results, outcome, worker, env, request, bodyText, input, shape, fields, calls, response>>

validatedOnly ==
  json([status |-> "validated_only", message |-> "Transit not configured"], 200, corsHeaders)

\* The try block that forwards the envelope, up to its await: the call
\* through the binding, else through the URL, else none.
Forward ==
  /\ pc = "forward"
  /\ steps' = Append(steps, "forward")
  /\ LET ch == transitChannel(env)
     IN  IF ch = "none" \/ (ch = "url" /\ UrlThrows(env.TRANSIT_URL))
         THEN Return(validatedOnly) /\ calls' = calls
         ELSE /\ calls' = Append(calls, [channel |-> ch, body |-> envelope])
              /\ pc' = "await"
              /\ response' = response
  /\ UNCHANGED <<handlers, isolate, server, page, call, results, outcome, worker, env, request, bodyText, input, shape, fields, envelope>>

\* The response the handler gives to an outcome of the downstream call.
\* A json(...) that throws inside the try block is caught like a failed call.
replyTo(o, headers) ==
  IF o.kind = "threw" THEN json([status |-> "validated_only", message |-> "Transit not configured"], 200, headers)
  ELSE IF o.status >= 200 /\ o.status <= 299
       THEN json([status |-> "accepted_by_transit"], 202, headers)
  ELSE IF ResponseThrows(o.status, TRUE)
       THEN json([status |-> "validated_only", message |-> "Transit not configured"], 200, headers)
  ELSE json([status |-> "transit_rejected", code |-> o.status], o.status, headers)

\* DownstreamSettles with a fallback: when the call through the binding
\* throws and a URL is configured, the envelope is sent to the URL as well.
DownstreamSettlesWithFallback ==
  /\ pc = "await"
  /\ steps' = Append(steps, "reply")
  /\ \E o \in Outcomes :
       /\ outcome' = o
       /\ Return(replyTo(o, corsHeaders))
       /\ calls' = IF o.kind = "threw" /\ calls[1].channel = "binding" /\ env.TRANSIT_URL # ""
                   THEN Append(calls, [channel |-> "url", body |-> envelope])
                   ELSE calls
  /\ UNCHANGED <<handlers, isolate, server, page, call, results, worker, env, request, bodyText, input, shape, fields, envelope>>

\* The downstream call settles and the handler returns.
DownstreamSettles ==
  /\ pc = "await"
  /\ steps' = Append(steps, "reply")
  /\ \E o \in Outcomes : outcome' = o /\ Return(replyTo(o, corsHeaders))
  /\ UNCHANGED <<handlers, isolate, server, page, call, results, worker, env, request, bodyText, input, shape, fields, envelope, calls>>

Next ==
  \/ Route
  \/ CheckOrigin
  \/ ReadBody
  \/ CheckSize
  \/ ParseJson
  \/ ExtractShape
  \/ Validate
  \/ EnforceLimits
  \/ BuildEnvelope
  \/ Forward
  \/ DownstreamSettles

Spec == Init /\ [][Next]_vars

--------------------------------------------------------------------------
(* The validator on its own: the handler taken up where the submitted map  *)
(* has been read, parsed and found to be an object, for every map that     *)
(* differs from the valid base map on at most MaxOverrides keys.           *)

\* An allowed origin list with the request's origin on it, no downstream.
ValidatorEnvs ==
  {e \in Envs : /\ e.ALLOWED_ORIGINS = Str(<<OpsOrigin>>)
                /\ e.MAX_BODY_BYTES = Undefined
                /\ e.MAX_FIELD_BYTES = Undefined
                /\ e.TRANSIT = "" /\ e.TRANSIT_URL = ""}

InitV ==
  /\ worker \in Workers
  /\ env \in ValidatorEnvs
  /\ shape \in Maps(worker, MaxOverrides)
  /\ request = [method |-> "POST", path |-> IngressPath(worker), origin |-> OpsOrigin,
                body |-> Body(shape, 0, FALSE, 0)]
  /\ pc = "validate"
  /\ bodyText = text(request.body)
  /\ input = shape
  /\ fields = None
  /\ envelope = None
  /\ calls = <<>>
  /\ outcome = None
  /\ response = NoResponse
  /\ call = None
  /\ results = <<>>
  /\ steps = <<"origin", "read", "size", "parse", "shape">>
  /\ handlers = <<>>
  /\ isolate = None
  /\ server = None
  /\ page = None

NextV ==
  \/ Validate
  \/ EnforceLimits

SpecValidate == InitV /\ [][NextV]_vars

--------------------------------------------------------------------------
(* The join handler from the validation on, for submitted maps that give   *)
(* one strArrayCapped field a value around the limits of strArrayCapped.   *)

LetterA == Str(<<"a">>)

\* The values that need no long text.
LightLists ==
  {Arr(<<>>), Arr(<<LetterA>>), Arr(<<LetterA, Num(12)>>), Arr(<<Null>>), Arr(<<Plain(<<>>)>>),
   Arr(Rep(LetterA, maxItems)), Arr(Rep(LetterA, maxItems + 1)),
   Arr(Rep(Num(7), maxItems + 1)), Arr(Rep(LetterA, maxItems + 10)),
   Num(0), Bool(FALSE), Num(7), Nope, Plain(<<>>)}

\* The values with items at the byte limits: an item of maxItemBytes
\* bytes, one byte more, more bytes in fewer characters, and items that
\* together pass maxTotalBytes.
HeavyLists ==
  {Arr(<<LetterA, Str(Rep("a", maxItemBytes))>>),
   Arr(<<LetterA, Str(Rep("a", maxItemBytes + 1))>>),
   Arr(<<LetterA, Str(Rep("EACUTE", (maxItemBytes \div 2) + 1))>>),
   Arr(Rep(Str(Rep("a", maxItemBytes)), maxTotalBytes \div maxItemBytes)),
   Arr(Rep(Str(Rep("a", maxItemBytes)), maxTotalBytes \div maxItemBytes) \o <<LetterA>>)}

ListFields == {k \in KeySet("join") : Declared("join", k) /\ FieldByName("join", k).type = "strArrayCapped"}

\* The base map of the join form with the value v for field k.
WithField(k, v) ==
  Plain([i \in 1..Len(BaseProps("join")) + 1 |->
           IF i <= Len(BaseProps("join")) THEN BaseProps("join")[i] ELSE Prop(k, v)])

ListMaps ==
  {WithField(k, v) : k \in ListFields, v \in LightLists}
  \cup {WithField("Skills", v) : v \in HeavyLists}

\* The configurations with the request's origin allowed and a downstream
\* behind the service binding.
BoundEnvs ==
  {e \in Envs : /\ e.ALLOWED_ORIGINS = Str(<<OpsOrigin>>)
                /\ e.MAX_BODY_BYTES = Undefined
                /\ e.MAX_FIELD_BYTES = Undefined
                /\ e.TRANSIT = "binding" /\ e.TRANSIT_URL = ""}

InitL ==
  /\ worker = "join"
  /\ env \in BoundEnvs
  /\ shape \in ListMaps
  /\ request = [method |-> "POST", path |-> IngressPath(worker), origin |-> OpsOrigin,
                body |-> Body(shape, 0, FALSE, 0)]
  /\ pc = "validate"
  /\ bodyText = text(request.body)
  /\ input = shape
  /\ fields = None
  /\ envelope = None
  /\ calls = <<>>
  /\ outcome = None
  /\ response = NoResponse
  /\ call = None
  /\ results = <<>>
  /\ steps = <<"origin", "read", "size", "parse", "shape">>
  /\ handlers = <<>>
  /\ isolate = None
  /\ server = None
  /\ page = None

NextL ==
  \/ Validate
  \/ EnforceLimits
  \/ BuildEnvelope
  \/ Forward
  \/ DownstreamSettles

SpecLists == InitL /\ [][NextL]_vars

--------------------------------------------------------------------------
(* The helpers of the validator called on their own, each on every          *)
(* argument of a bounded set.                                               *)

\* The number of pieces a text given to the sanitizer is made of.
MaxPieces == 3

JavascriptColon == <<"j", "a", "v", "a", "s", "c", "r", "i", "p", "t", ":">>

\* The pieces: a tag, lone angle brackets, the parts of an inline handler,
\* javascript: whole and in two halves, a space, a bidi control.
Pieces ==
  {<<"<", "b", ">">>, <<"<">>, <<">">>, <<"o">>, <<"n", "x", "=">>, JavascriptColon,
   <<"j", "a", "v", "a">>, <<"s", "c", "r", "i", "p", "t", ":">>, <<" ">>, <<"RLO">>}

\* The texts made of at most n pieces.
RECURSIVE Texts(_)
Texts(n) ==
  IF n = 0 THEN {<<>>}
  ELSE {<<>>} \cup {p \o t : p \in Pieces, t \in Texts(n - 1)}

\* <script>alert(1)</script>
ScriptAlert ==
  <<"<", "s", "c", "r", "i", "p", "t", ">", "a", "l", "e", "r", "t", "(", "1", ")",
    "<", "/", "s", "c", "r", "i", "p", "t", ">">>

SanitizeCalls ==
  {[fn |-> "sanitizeValue", v |-> Str(t)] : t \in Texts(MaxPieces) \cup {ScriptAlert}}

\* An address of n characters, n >= 6: a...a@b.co
EmailOf(n) == Rep("a", n - 5) \o <<"@", "b", ".", "c", "o">>

\* Addresses around the two length limits of mustEmail, texts of the same
\* lengths that are no addresses, and addresses wrapped in what
\* sanitizeValue removes.
EmailTexts ==
  {EmailOf(n) : n \in {6} \cup (252..256) \cup {300}}
  \cup {Rep("a", n) : n \in (0..4) \cup (253..256)}
  \cup {<<"a", "@">>, <<"@", "b">>, <<"a", "@", "b">>, <<"a", "@", "b", ".", "c">>,
        <<"a", " ", "b">> \o EmailOf(251), <<"a", " ", "b">> \o EmailOf(252),
        <<"<", "b", ">">> \o EmailOf(254), <<"<", "b", ">">> \o EmailOf(255),
        <<" ">> \o EmailOf(254) \o <<" ">>, <<" ", "a", "@", " ">>}

EmailCalls == {[fn |-> "mustEmail", v |-> Str(t)] : t \in EmailTexts}

\* Dates: well formed, out of the calendar, with parts too short, with
\* other separators, with a time of day, spaced, empty, over 20 characters.
DateTexts ==
  {<<"2", "0", "2", "6", "-", "1", "1", "-", "0", "5">>,
   <<"2", "0", "2", "6", "-", "1", "3", "-", "4", "5">>,
   <<"2", "0", "2", "6", "-", "1", "-", "5">>,
   <<"2", "0", "2", "6", "1", "1", "0", "5">>,
   <<"2", "0", "2", "6", "/", "1", "1", "/", "0", "5">>,
   <<"0", "5", "-", "1", "1", "-", "2", "0", "2", "6">>,
   <<"2", "0", "2", "6", "-", "1", "1", "-", "0", "5", "T", "0", "9", ":", "3", "0">>,
   <<" ", "2", "0", "2", "6", "-", "1", "1", "-", "0", "5", " ">>,
   <<"s", "o", "o", "n">>, <<>>, <<" ">>, Rep("1", 20), Rep("1", 21)}

DateCalls == {[fn |-> "mustDate", v |-> Str(t)] : t \in DateTexts}

\* Times: well formed, the last minute of the day, hours and minutes out
\* of the clock, one-digit hours, with seconds, without colon, spaced,
\* empty, over 20 characters.
TimeTexts ==
  {<<"0", "9", ":", "3", "0">>, <<"2", "3", ":", "5", "9">>, <<"0", "0", ":", "0", "0">>,
   <<"2", "4", ":", "0", "0">>, <<"9", "9", ":", "9", "9">>, <<"1", "2", ":", "6", "0">>,
   <<"9", ":", "3", "0">>, <<"0", "9", ":", "3", "0", ":", "0", "0">>,
   <<"0", "9", "3", "0">>, <<"0", "9", ".", "3", "0">>, <<"a", "b", ":", "c", "d">>,
   <<" ", "0", "9", ":", "3", "0", " ">>, <<"0", "9", ":", "3", "0", " ", "p", "m">>,
   <<"n", "o", "o", "n">>, <<>>, <<" ">>, Rep("1", 20), Rep("1", 21)}

TimeCalls == {[fn |-> "mustTime", v |-> Str(t)] : t \in TimeTexts}

Calls == SanitizeCalls \cup EmailCalls \cup DateCalls \cup TimeCalls

InitF ==
  /\ worker = "contact"
  /\ env \in ValidatorEnvs
  /\ request = [method |-> "POST", path |-> IngressPath(worker), origin |-> OpsOrigin,
                body |-> None]
  /\ pc = "call"
  /\ bodyText = None
  /\ input = None
  /\ shape = None
  /\ fields = None
  /\ envelope = None
  /\ calls = <<>>
  /\ outcome = None
  /\ response = NoResponse
  /\ call \in Calls
  /\ results = <<>>
  /\ steps = <<>>
  /\ handlers = <<>>
  /\ isolate = None
  /\ server = None
  /\ page = None

\* sanitizeValue(v), and then sanitizeValue of what it returned.
Sanitize ==
  /\ pc = "call"
  /\ call.fn = "sanitizeValue"
  /\ results' = Append(results, sanitizeValue(IF results = <<>> THEN call.v
                                               ELSE results[Len(results)]))
  /\ pc' = IF results = <<>> THEN "call" ELSE "returned"
  /\ UNCHANGED <<handlers, isolate, server, page, worker, env, request, bodyText, input, shape, fields, envelope, calls, outcome,
                 response, call, steps>>

\* mustEmail(v, f.name) of the contact validator
MustEmail ==
  /\ pc = "call"
  /\ call.fn = "mustEmail"
  /\ results' = <<mustEmail(call.v, Label("Email", -1))>>
  /\ pc' = "returned"
  /\ UNCHANGED <<handlers, isolate, server, page, worker, env, request, bodyText, input, shape, fields, envelope, calls, outcome,
                 response, call, steps>>

\* mustDate(v, f.name)
MustDate ==
  /\ pc = "call"
  /\ call.fn = "mustDate"
  /\ results' = <<mustDate(call.v, Label("Preferred Date", -1))>>
  /\ pc' = "returned"
  /\ UNCHANGED <<handlers, isolate, server, page, worker, env, request, bodyText, input, shape, fields, envelope, calls, outcome,
                 response, call, steps>>

\* mustTime(v, f.name)
MustTime ==
  /\ pc = "call"
  /\ call.fn = "mustTime"
  /\ results' = <<mustTime(call.v, Label("Preferred Time", -1))>>
  /\ pc' = "returned"
  /\ UNCHANGED <<handlers, isolate, server, page, worker, env, request, bodyText, input, shape, fields, envelope, calls, outcome,
                 response, call, steps>>

NextF ==
  \/ Sanitize
  \/ MustEmail
  \/ MustDate
  \/ MustTime

SpecFunctions == InitF /\ [][NextF]_vars

--------------------------------------------------------------------------
(* The fetch handler of the transit broker, one request at a time.  The    *)
(* variables worker, env, request, pc, bodyText, input, response and steps *)
(* hold the broker's request; the others stay as they start.               *)

FormContact == Str(<<"c", "o", "n", "t", "a", "c", "t">>)

FormJoin == Str(<<"j", "o", "i", "n">>)

\* What the form of a body may be: the two known forms, near misses,
\* values of other types, and Absent for a body without the key.
FormValues ==
  {Absent, FormContact, FormJoin,
   Str(<<"C", "o", "n", "t", "a", "c", "t">>), Str(<<"j", "o", "i", "n", " ">>),
   Str(<<"u", "n", "k", "n", "o", "w", "n">>), Str(<<>>),
   Null, Num(0), Num(1), Bool(TRUE), Arr(<<FormContact>>), Plain(<<Prop("form", FormJoin)>>)}

\* What a body may hold besides form: nothing, the rest of an envelope,
\* fields that are no map, a __proto__ key that holds a form.
EnvelopeRests ==
  {<<>>,
   <<Prop("schema", Str(<<"o", "p", "s", ".", "v", "1">>)), Prop("asset_id", Str(<<"x">>)),
     Prop("fields", Plain(BaseProps("contact")))>>,
   <<Prop("fields", Str(<<"x">>))>>,
   <<Prop("__proto__", Plain(<<Prop("form", FormContact)>>))>>}

TransitContents ==
  {Plain((IF f = Absent THEN <<>> ELSE <<Prop("form", f)>>) \o r) : f \in FormValues, r \in EnvelopeRests}
  \cup {Plain(<<Prop("fields", Null), Prop("form", FormJoin)>>)}
  \cup {EmptyText, Malformed, Null, Num(7), Bool(TRUE), FormContact, Arr(<<>>),
        Arr(<<Plain(<<Prop("form", FormContact)>>)>>)}

TransitBodies == {BrokenBody} \cup {Body(c, 0, FALSE, 0) : c \in TransitContents}

TransitPaths == {"/.well-known/health", "/core", "/other"}

TransitEnvs ==
  {[ALLOWED_ORIGINS |-> a, ASSET_ID |-> id] :
     a \in {Undefined, Str(<<OpsOrigin>>)}, id \in {"", "ops-transit-eu"}}

\* new Date().toISOString() at the moment of the acknowledgement
Instants == {"2026-01-01T00:00:00.000Z", "2026-01-01T00:00:00.001Z"}

\* cors(env, origin) of the broker
transitCors(e, origin) ==
  LET h == ("X-Content-Type-Options" :> "nosniff")
           @@ ("X-Frame-Options" :> "DENY")
           @@ ("Referrer-Policy" :> "no-referrer")
           @@ ("Permissions-Policy" :> "geolocation=(), microphone=(), camera=()")
  IN  IF isAllowedOrigin(e, origin)
      THEN ("Access-Control-Allow-Origin" :> origin)
           @@ ("Vary" :> "Origin")
           @@ ("Access-Control-Allow-Methods" :> "POST, OPTIONS, GET")
           @@ ("Access-Control-Allow-Headers" :> "content-type, x-asset-id")
           @@ h
      ELSE h

\* The form test with the comparison to the two names dropped.
anyForm(form) == ~Falsy(form)

\* The form test that knows the contact form only.
contactOnly(form) == ~Falsy(form) /\ form = FormContact

\* !(!form || (form !== 'contact' && form !== 'join'))
knownForm(form) == ~Falsy(form) /\ (form = FormContact \/ form = FormJoin)

InitT ==
  /\ worker = "transit"
  /\ env \in TransitEnvs
  /\ request \in [method : Methods, path : TransitPaths, origin : {"", OpsOrigin}, body : {None}]
  /\ pc = "start"
  /\ bodyText = None
  /\ input = None
  /\ shape = None
  /\ fields = None
  /\ envelope = None
  /\ calls = <<>>
  /\ outcome = None
  /\ response = NoResponse
  /\ call = None
  /\ results = <<>>
  /\ steps = <<>>
  /\ handlers = <<>>
  /\ isolate = None
  /\ server = None
  /\ page = None

\* The dispatch on method and path at the head of the broker's fetch.
TransitRoute ==
  /\ pc = "start"
  /\ worker = "transit"
  /\ IF request.method = "OPTIONS" THEN Return(preflight(transitCors(env, request.origin)))
     ELSE IF request.method = "GET" /\ request.path = "/.well-known/health"
       THEN Return(json([ok |-> TRUE,
                         service |-> IF env.ASSET_ID # "" THEN env.ASSET_ID ELSE "ops-transit-broker",
                         version |-> "0.1.0"],
                        200, transitCors(env, request.origin)))
     ELSE IF request.method = "POST" /\ request.path = "/core"
       THEN pc' = "read" /\ response' = response
     ELSE Return(json([error |-> "not_found"], 404, transitCors(env, request.origin)))
  /\ UNCHANGED <<handlers, isolate, server, page, worker, env, request, bodyText, input, shape, fields, envelope, calls, outcome,
                 call, results, steps>>

\* bodyText = await request.text(), 400 read_error when it rejects
TransitRead ==
  /\ pc = "read"
  /\ worker = "transit"
  /\ steps' = Append(steps, "read")
  /\ \E b \in TransitBodies :
       /\ request' = [request EXCEPT !.body = b]
       /\ IF b = BrokenBody
          THEN /\ Return(json([error |-> "read_error"], 400, transitCors(env, request.origin)))
               /\ bodyText' = bodyText
          ELSE /\ bodyText' = text(b)
               /\ pc' = "parse"
               /\ response' = response
  /\ UNCHANGED <<handlers, isolate, server, page, worker, env, input, shape, fields, envelope, calls, outcome, call, results>>

\* input = JSON.parse(bodyText || '{}'), 400 invalid_json when it throws
TransitParse ==
  /\ pc = "parse"
  /\ worker = "transit"
  /\ steps' = Append(steps, "parse")
  /\ \E r \in {JSONparse(bodyText)} :
       IF ~r.ok
       THEN Return(json([error |-> "invalid_json"], 400, transitCors(env, request.origin)))
            /\ input' = input
       ELSE pc' = "form" /\ input' = r.v /\ response' = response
  /\ UNCHANGED <<handlers, isolate, server, page, worker, env, request, bodyText, shape, fields, envelope, calls, outcome,
                 call, results>>

\* The two tests on the parsed body and the acknowledgement.
TransitAck ==
  /\ pc = "form"
  /\ worker = "transit"
  /\ steps' = Append(steps, "form")
  /\ IF Falsy(input) \/ ~TypeofObject(input)
     THEN Return(json([error |-> "invalid_payload"], 400, transitCors(env, request.origin)))
     ELSE IF ~knownForm(Get(input, "form"))
     THEN Return(json([error |-> "unknown_form"], 400, transitCors(env, request.origin)))
     ELSE \E now \in Instants :
            Return(json([status |-> "ack", form |-> Get(input, "form"), received_at |-> now],
                        202, transitCors(env, request.origin)))
  /\ UNCHANGED <<handlers, isolate, server, page, worker, env, request, bodyText, input, shape, fields, envelope, calls, outcome,
                 call, results>>

NextT ==
  \/ TransitRoute
  \/ TransitRead
  \/ TransitParse
  \/ TransitAck

SpecTransit == InitT /\ [][NextT]_vars

--------------------------------------------------------------------------
(* The fetch handler of the sheet logger, for up to MaxRequests requests   *)
(* that one instance of the worker handles one after the other.  calls     *)
(* holds the requests to the token endpoint and to the spreadsheet made so *)
(* far, results the responses of the requests already answered.            *)

MaxRequests == 2

Bearer == <<"B", "e", "a", "r", "e", "r", " ">>

Secret == <<"s", "3", "c", "r", "e", "t">>

\* The Authorization header of a request, <<>> when there is none.
AuthHeaders ==
  {<<>>, Bearer \o Secret, Bearer \o <<"w", "r", "o", "n", "g">>,
   Bearer \o <<"u", "n", "d", "e", "f", "i", "n", "e", "d">>,
   <<"b", "e", "a", "r", "e", "r", " ">> \o Secret, Secret, Bearer \o Secret \o <<"x">>}

\* The configurations: the secret set or not, the signing key usable or not.
SheetEnvs ==
  {[ALLOWED_ORIGINS |-> Str(<<OpsOrigin>>), ASSET_ID |-> "", API_TOKEN |-> t, SA_PRIVATE_KEY |-> k] :
     t \in {Undefined, Str(Secret)}, k \in {Undefined, Str(<<"PEM">>)}}

SheetRequests ==
  [method : {"POST"}, path : {"/log"}, origin : {OpsOrigin}, auth : AuthHeaders, body : {None}]
  \cup [method : {"OPTIONS", "GET"}, path : {"/.well-known/health", "/other"}, origin : {OpsOrigin},
        auth : {<<>>}, body : {None}]
  \cup [method : {"POST"}, path : {"/.well-known/health"}, origin : {""},
        auth : {Bearer \o Secret}, body : {None}]

SheetBodies ==
  {BrokenBody} \cup {Body(c, 0, FALSE, 0) : c \in {EmptyText, Malformed, Null, Plain(BaseProps("contact"))}}

\* What the token endpoint does with an exchange: the fetch rejects, or
\* it replies, with res.ok or not, a body that is JSON or not, and an
\* access_token in it or not.
ExchangeOutcomes ==
  {[kind |-> "threw", ok |-> FALSE, json |-> FALSE, access_token |-> FALSE]}
  \cup {[kind |-> "replied", ok |-> o, json |-> j, access_token |-> a] :
          o \in BOOLEAN, j \in BOOLEAN, a \in BOOLEAN}

\* What the spreadsheet does with an append: the fetch rejects, or it
\* replies with res.ok or not.
AppendOutcomes ==
  {[kind |-> "threw", ok |-> FALSE], [kind |-> "replied", ok |-> TRUE], [kind |-> "replied", ok |-> FALSE]}

\* cors(env, origin) of the sheet logger
sheetCors(e, origin) ==
  LET h == ("X-Content-Type-Options" :> "nosniff")
           @@ ("X-Frame-Options" :> "DENY")
           @@ ("Referrer-Policy" :> "no-referrer")
           @@ ("Permissions-Policy" :> "geolocation=(), microphone=(), camera=()")
  IN  IF isAllowedOrigin(e, origin)
      THEN ("Access-Control-Allow-Origin" :> origin)
           @@ ("Vary" :> "Origin")
           @@ ("Access-Control-Allow-Methods" :> "POST, OPTIONS, GET")
           @@ ("Access-Control-Allow-Headers" :> "content-type, authorization")
           @@ h
      ELSE h

\* `Bearer ${env.API_TOKEN}`
expectedAuth(e) == Bearer \o ToStr(e.API_TOKEN)

\* The number of the request being handled.
RequestNo == Len(results) + 1

\* getAccessToken returns: the signing worked, the endpoint replied with
\* JSON and res.ok.  It throws in every other case.
TokenReturned(e, o) ==
  /\ e.SA_PRIVATE_KEY # Undefined
  /\ o.kind = "replied" /\ o.json /\ o.ok

InitS ==
  /\ worker = "sheet"
  /\ env \in SheetEnvs
  /\ request \in SheetRequests
  /\ pc = "start"
  /\ bodyText = None
  /\ input = None
  /\ shape = None
  /\ fields = None
  /\ envelope = None
  /\ calls = <<>>
  /\ outcome = None
  /\ response = NoResponse
  /\ call = None
  /\ results = <<>>
  /\ steps = <<>>
  /\ handlers = <<>>
  /\ isolate = None
  /\ server = None
  /\ page = None

\* The dispatch on method and path at the head of the logger's fetch.
SheetRoute ==
  /\ pc = "start"
  /\ worker = "sheet"
  /\ IF request.method = "OPTIONS" THEN Return(preflight(sheetCors(env, request.origin)))
     ELSE IF request.method = "GET" /\ request.path = "/.well-known/health"
       THEN Return(json([ok |-> TRUE,
                         service |-> IF env.ASSET_ID # "" THEN env.ASSET_ID ELSE "ops-sheet-logger",
                         version |-> "0.1.0"],
                        200, sheetCors(env, request.origin)))
     ELSE IF request.method = "POST" /\ request.path = "/log"
       THEN pc' = "auth" /\ response' = response
     ELSE Return(json([error |-> "not_found"], 404, sheetCors(env, request.origin)))
  /\ UNCHANGED <<handlers, isolate, server, page, worker, env, request, bodyText, input, shape, fields, envelope, calls, outcome,
                 call, results, steps>>

\* if (auth !== `Bearer ${env.API_TOKEN}`) return 401
SheetAuth ==
  /\ pc = "auth"
  /\ steps' = Append(steps, "auth")
  /\ IF request.auth # expectedAuth(env)
     THEN Return(json([error |-> "unauthorized"], 401, sheetCors(env, request.origin)))
     ELSE pc' = "json" /\ response' = response
  /\ UNCHANGED <<handlers, isolate, server, page, worker, env, request, bodyText, input, shape, fields, envelope, calls, outcome,
                 call, results>>

\* payload = await request.json(), 400 bad_json when it rejects.  The
\* body is what arrives on the stream; the empty text is no JSON.
SheetJson ==
  /\ pc = "json"
  /\ steps' = Append(steps, "json")
  /\ \E b \in SheetBodies :
       /\ request' = [request EXCEPT !.body = b]
       /\ IF b = BrokenBody \/ b.content \in {EmptyText, Malformed}
          THEN /\ Return(json([error |-> "bad_json"], 400, sheetCors(env, request.origin)))
               /\ input' = input
          ELSE /\ input' = b.content
               /\ pc' = "token"
               /\ response' = response
  /\ UNCHANGED <<handlers, isolate, server, page, worker, env, bodyText, shape, fields, envelope, calls, outcome, call, results>>

\* The request to the token endpoint that getAccessToken makes and what
\* came of it; token names the access token of the reply, 0 when the
\* reply holds none.
TokenCall(o) ==
  [req |-> RequestNo, to |-> "token", returned |-> TokenReturned(env, o),
   token |-> IF o.kind = "replied" /\ o.json /\ o.access_token THEN Len(calls) + 1 ELSE 0]

\* getAccessToken with the token of an earlier exchange kept: a request
\* that finds one goes on to the append without an exchange.
getAccessTokenCached ==
  /\ pc = "token"
  /\ steps' = Append(steps, "token")
  /\ IF \E i \in 1..Len(calls) : calls[i].to = "token" /\ calls[i].returned
     THEN /\ outcome' = calls[CHOOSE i \in 1..Len(calls) : calls[i].to = "token" /\ calls[i].returned]
          /\ calls' = calls
          /\ pc' = "append"
          /\ response' = response
     ELSE IF env.SA_PRIVATE_KEY = Undefined
     THEN /\ Return(json([error |-> "sheet_error"], 500, sheetCors(env, request.origin)))
          /\ UNCHANGED <<calls, outcome>>
     ELSE \E o \in ExchangeOutcomes :
            /\ calls' = Append(calls, TokenCall(o))
            /\ outcome' = TokenCall(o)
            /\ IF ~TokenReturned(env, o)
               THEN Return(json([error |-> "sheet_error"], 500, sheetCors(env, request.origin)))
               ELSE pc' = "append" /\ response' = response
  /\ UNCHANGED <<handlers, isolate, server, page, worker, env, request, bodyText, input, shape, fields, envelope, call, results>>

\* const token = await getAccessToken(env): the assertion is signed, which
\* throws without a usable key, and exchanged at the token endpoint; what
\* getAccessToken throws is caught in fetch and answered 500 sheet_error.
getAccessToken ==
  /\ pc = "token"
  /\ steps' = Append(steps, "token")
  /\ IF env.SA_PRIVATE_KEY = Undefined
     THEN /\ Return(json([error |-> "sheet_error"], 500, sheetCors(env, request.origin)))
          /\ UNCHANGED <<calls, outcome>>
     ELSE \E o \in ExchangeOutcomes :
            /\ calls' = Append(calls, TokenCall(o))
            /\ outcome' = TokenCall(o)
            /\ IF ~TokenReturned(env, o)
               THEN Return(json([error |-> "sheet_error"], 500, sheetCors(env, request.origin)))
               ELSE pc' = "append" /\ response' = response
  /\ UNCHANGED <<handlers, isolate, server, page, worker, env, request, bodyText, input, shape, fields, envelope, call, results>>

\* The rest of appendToSheet and the end of the try block: the row is
\* posted with the token, 200 {ok:true} when res.ok, 500 sheet_error when
\* the fetch rejects or the reply is not ok.
appendToSheet ==
  /\ pc = "append"
  /\ steps' = Append(steps, "append")
  /\ \E o \in AppendOutcomes :
       /\ calls' = Append(calls, [req |-> RequestNo, to |-> "append", returned |-> o.ok,
                                  token |-> outcome.token])
       /\ IF o.ok
          THEN Return(json([ok |-> TRUE], 200, sheetCors(env, request.origin)))
          ELSE Return(json([error |-> "sheet_error"], 500, sheetCors(env, request.origin)))
  /\ UNCHANGED <<handlers, isolate, server, page, worker, env, request, bodyText, input, shape, fields, envelope, outcome, call,
                 results>>

\* The worker takes up its next request.
SheetNextRequest ==
  /\ pc = "done"
  /\ worker = "sheet"
  /\ Len(results) + 1 < MaxRequests
  /\ results' = Append(results, response)
  /\ request' \in SheetRequests
  /\ pc' = "start"
  /\ response' = NoResponse
  /\ input' = None
  /\ outcome' = None
  /\ steps' = <<>>
  /\ UNCHANGED <<handlers, isolate, server, page, worker, env, bodyText, shape, fields, envelope, calls, call>>

NextS ==
  \/ SheetRoute
  \/ SheetAuth
  \/ SheetJson
  \/ getAccessToken
  \/ appendToSheet
  \/ SheetNextRequest

SpecSheet == InitS /\ [][NextS]_vars

--------------------------------------------------------------------------
(* The four workers side by side: a request to an intake worker, to the    *)
(* transit broker or to the sheet logger.                                  *)

InitW ==
  \/ Init
  \/ InitT
  \/ InitS

NextW ==
  \/ Next
  \/ NextT
  \/ NextS

SpecWorkers == InitW /\ [][NextW]_vars

--------------------------------------------------------------------------
(* Two requests that one instance of a worker handles at the same time.    *)
(* A handler runs without interruption from one await to the next: up to   *)
(* `await request.text()`, from there up to the await of the downstream    *)
(* call, and from there to its return.  handlers holds the locals of each  *)
(* call of fetch, isolate what the module keeps between calls: the         *)
(* lastIndex of RE_CTRL and RE_BIDI, the only module-level objects that a  *)
(* call can change.                                                        *)

Pair == {1, 2}

\* String.prototype.replace leaves the lastIndex of a global regular
\* expression at 0, and starts at 0 whatever it finds there.
FreshIsolate == [RE_CTRL |-> 0, RE_BIDI |-> 0]

\* The locals of a call of fetch that has just begun.
NewHandler(req) == [request |-> req, pc |-> "start", calls |-> <<>>, outcome |-> None,
                    response |-> NoResponse]

\* return <response>
Answer(h, r) == [h EXCEPT !.pc = "done", !.response = r]

\* const corsHeaders = cors(env, origin)
headersOf(w, e, h) ==
  IF w = "transit" THEN transitCors(e, h.request.origin) ELSE cors(e, h.request.origin)

\* fetch up to its first await.
FetchStart(w, e, h) ==
  IF h.request.method = "OPTIONS" THEN Answer(h, preflight(headersOf(w, e, h)))
  ELSE IF h.request.method = "GET" /\ h.request.path = "/.well-known/health"
    THEN Answer(h, json([ok |-> TRUE,
                         service |-> IF e.ASSET_ID # "" THEN e.ASSET_ID
                                     ELSE IF w = "transit" THEN "ops-transit-broker"
                                     ELSE assetId(w, e),
                         version |-> "0.1.0"], 200, headersOf(w, e, h)))
  ELSE IF w = "transit" /\ h.request.method = "POST" /\ h.request.path = "/core"
    THEN [h EXCEPT !.pc = "text"]
  ELSE IF w # "transit" /\ h.request.method = "POST" /\ h.request.path = IngressPath(w)
    THEN IF ~isAllowedOrigin(e, h.request.origin)
         THEN Answer(h, json([error |-> "forbidden_origin"], 403, headersOf(w, e, h)))
         ELSE [h EXCEPT !.pc = "text"]
  ELSE Answer(h, json([error |-> "not_found"], 404, headersOf(w, e, h)))

\* The try block that forwards the envelope, up to its await.
FetchForward(w, e, h, r, f) ==
  IF ~r.ok
  THEN Answer(h, json([error |-> "validation_error",
                       message |-> [kind |-> r.kind, name |-> r.name, index |-> r.index]],
                      400, headersOf(w, e, h)))
  ELSE IF transitChannel(e) = "none" \/ (transitChannel(e) = "url" /\ UrlThrows(e.TRANSIT_URL))
  THEN Answer(h, json([status |-> "validated_only", message |-> "Transit not configured"],
                      200, headersOf(w, e, h)))
  ELSE [h EXCEPT !.pc = "fetch",
                 !.calls = <<[channel |-> transitChannel(e), body |-> envelopeOf(w, e, f)]>>]

\* The validation and the byte limits, in one try block.
FetchValidate(w, e, h, r) ==
  IF ~r.ok THEN FetchForward(w, e, h, r, None)
  ELSE FetchForward(w, e, h, enforceByteLimits(w, r.v, maxFieldBytes(e)), r.v)

\* An intake worker from the parsed body to the validation.
FetchParsed(w, e, h, r) ==
  IF ~r.ok THEN Answer(h, json([error |-> "invalid_json"], 400, headersOf(w, e, h)))
  ELSE IF Falsy(shapeOf(r.v)) \/ ~TypeofObject(shapeOf(r.v))
  THEN Answer(h, json([error |-> "invalid_payload"], 400, headersOf(w, e, h)))
  ELSE FetchValidate(w, e, h, validateAgainstSchema(w, w, SchemaOf(w), sanitizeValue(shapeOf(r.v))))

\* The broker from the parsed body to its return.
CoreParsed(e, h, r, now) ==
  IF ~r.ok THEN Answer(h, json([error |-> "invalid_json"], 400, headersOf("transit", e, h)))
  ELSE IF Falsy(r.v) \/ ~TypeofObject(r.v)
  THEN Answer(h, json([error |-> "invalid_payload"], 400, headersOf("transit", e, h)))
  ELSE IF ~knownForm(Get(r.v, "form"))
  THEN Answer(h, json([error |-> "unknown_form"], 400, headersOf("transit", e, h)))
  ELSE Answer(h, json([status |-> "ack", form |-> Get(r.v, "form"), received_at |-> now],
                      202, headersOf("transit", e, h)))

\* fetch from the body text to its next await or its return.
FetchText(w, e, h, b, now) ==
  IF b = BrokenBody THEN Answer(h, json([error |-> "read_error"], 400, headersOf(w, e, h)))
  ELSE IF w = "transit" THEN CoreParsed(e, h, JSONparse(text(b)), now)
  ELSE IF byteLen(text(b)) > maxBodyBytes(e)
  THEN Answer(h, json([error |-> "payload_too_large"], 413, headersOf(w, e, h)))
  ELSE FetchParsed(w, e, h, JSONparse(text(b)))

\* fetch from the downstream's reply to its return.
FetchReply(w, e, h, o) == Answer([h EXCEPT !.outcome = o], replyTo(o, headersOf(w, e, h)))

\* The requests, bodies and configurations of the pair.
PairPaths(w) == IF w = "transit" THEN {"/core", "/other"} ELSE {IngressPath(w), "/other"}

PairRequests(w) ==
  [method : {"POST"}, path : PairPaths(w), origin : {OpsOrigin, "https://evil.example"}, body : {None}]
  \cup [method : {"OPTIONS", "GET"}, path : {"/.well-known/health"}, origin : {OpsOrigin}, body : {None}]

PairBodies(w) ==
  {BrokenBody}
  \cup {Body(c, 0, FALSE, 0) :
          c \in IF w = "transit"
                THEN {Malformed, Null, Plain(<<Prop("form", FormContact)>>),
                      Plain(<<Prop("form", Str(<<"x">>))>>)}
                ELSE {Malformed, Null, Plain(BaseProps(w)),
                      Plain(BaseProps(w) \o <<Prop("Extra", Str(<<"x">>))>>),
                      Plain(<<Prop("Name", Str(<<"<", "b", ">">>))>>)}}

PairEnvs(w) == IF w = "transit" THEN {e \in TransitEnvs : e.ASSET_ID = ""} ELSE BoundEnvs

InitC ==
  /\ worker \in Workers \cup {"transit"}
  /\ env \in PairEnvs(worker)
  /\ handlers \in [Pair -> {NewHandler(r) : r \in PairRequests(worker)}]
  /\ isolate = FreshIsolate
  /\ request = None
  /\ pc = "pair"
  /\ bodyText = None
  /\ input = None
  /\ shape = None
  /\ fields = None
  /\ envelope = None
  /\ calls = <<>>
  /\ outcome = None
  /\ response = NoResponse
  /\ call = None
  /\ results = <<>>
  /\ steps = <<>>
  /\ server = None
  /\ page = None

\* Handler i runs from its call to its first await.
HandlerStarts(i) ==
  /\ handlers[i].pc = "start"
  /\ handlers' = [handlers EXCEPT ![i] = FetchStart(worker, env, handlers[i])]
  /\ UNCHANGED <<isolate, server, page>>
  /\ UNCHANGED workerVars

\* BodyArrives with the last answer kept at module level and given again
\* to the next request.
BodyArrivesMemo(i) ==
  /\ handlers[i].pc = "text"
  /\ \E b \in PairBodies(worker), now \in Instants :
       \E h \in {FetchText(worker, env, [handlers[i] EXCEPT !.request.body = b], b, now)} :
         IF "memo" \in DOMAIN isolate
         THEN /\ handlers' = [handlers EXCEPT ![i] = Answer([h EXCEPT !.calls = <<>>], isolate.memo)]
              /\ isolate' = isolate
         ELSE /\ handlers' = [handlers EXCEPT ![i] = h]
              /\ isolate' = IF h.pc = "done"
                             THEN [RE_CTRL |-> 0, RE_BIDI |-> 0, memo |-> h.response]
                             ELSE isolate
  /\ UNCHANGED <<server, page>>
  /\ UNCHANGED workerVars

\* The body of request i has been read: handler i runs to the await of
\* the downstream call or to its return.  The replaces of sanitizeValue
\* leave the two regular expressions as they were.
BodyArrives(i) ==
  /\ handlers[i].pc = "text"
  /\ \E b \in PairBodies(worker), now \in Instants :
       handlers' = [handlers EXCEPT
                      ![i] = FetchText(worker, env, [handlers[i] EXCEPT !.request.body = b], b, now)]
  /\ isolate' = FreshIsolate
  /\ UNCHANGED <<server, page>>
  /\ UNCHANGED workerVars

\* The downstream call of request i settles: handler i runs to its return.
DownstreamReplies(i) ==
  /\ handlers[i].pc = "fetch"
  /\ \E o \in Outcomes :
       handlers' = [handlers EXCEPT ![i] = FetchReply(worker, env, handlers[i], o)]
  /\ UNCHANGED <<isolate, server, page>>
  /\ UNCHANGED workerVars

NextC ==
  \/ \E i \in Pair : HandlerStarts(i)
  \/ \E i \in Pair : BodyArrives(i)
  \/ \E i \in Pair : DownstreamReplies(i)

SpecConcurrent == InitC /\ [][NextC]_vars

--------------------------------------------------------------------------
(* The Express server of server.js: its start, and the requests that go   *)
(* through its middleware and routes one after the other.  Time is in      *)
(* milliseconds; the values of generateNonce and generateToken are         *)
(* numbered in the order they are drawn, so no two of them are equal.      *)

\* The requests the server is followed for.
MaxServed == 4

\* A variable of the environment that is not set.
Unset == "(unset)"

ServerEnvs ==
  [NODE_ENV : {Unset, "production", "development"},
   SESSION_SECRET : {Unset, "", "dev-secret", "s3cr3t"}]

\* The major versions of helmet the call helmet({hsts, hidePoweredBy})
\* is written for: 3 sets neither a Content-Security-Policy nor a
\* Referrer-Policy unless asked, 4 and later set their defaults.
HelmetVersions == {"3", "4"}

NonceTtl == 10 * 60 * 1000

windowMs == 15 * 60 * 1000

max == 100

isProduction(e) == e.NODE_ENV = "production"

\* !sessionSecret: unset or the empty string.
NoSecret(e) == e.SESSION_SECRET \in {Unset, ""}

\* The start that takes only an unset secret for a missing one.
fatalAtStartupUnsetOnly(e) == isProduction(e) /\ NoSecret(e)

\* if (isProduction && (!sessionSecret || sessionSecret === 'dev-secret'))
fatalAtStartup(e) ==
  isProduction(e) /\ (NoSecret(e) \/ e.SESSION_SECRET = "dev-secret")

\* The headers helmet({hsts: {...}, hidePoweredBy: true}) sets on every
\* response; the Content-Security-Policy is the set of its directives.
helmet(version) ==
  [hsts |-> "max-age=31536000; includeSubDomains; preload",
   nosniff |-> "nosniff",
   referrerPolicy |-> IF version = "3" THEN "" ELSE "no-referrer",
   csp |-> IF version = "3" THEN {}
           ELSE {"default-src 'self'", "base-uri 'self'", "object-src 'none'",
                 "script-src 'self'", "frame-ancestors 'self'"}]

EmptySession == [nonce |-> None, csrfToken |-> None, chatNonce |-> None]

\* A request body that is not JSON, and the fields of a JSON body: whether
\* name, email and message pass contactValidation, the csrfToken (0 when
\* missing, empty or not a string) and the chat nonce.
NotJson == [t |-> "not json"]

NoNonce == ""

NumberNonce == "<7>"

ChatNonces == {"a", "b"}

NoFields == [fieldsOk |-> FALSE, csrfToken |-> 0, nonce |-> NoNonce]

\* req.body after express.json(): {} when the request has no body.
bodyOf(req) == IF req.body = None THEN NoFields ELSE req.body

ApiPaths ==
  {"/api/session", "/api/csrf-token", "/api/contact", "/api/chat/reset", "/api/chat",
   "/api/other"}

\* A response: helmet's headers, the status, the error or the result of
\* the JSON body, the nonce cookie and the X-CSRF-Token header it sets
\* (0 when it sets none).
Reply(s, status, error, result) ==
  [status |-> status, error |-> error, result |-> result, headers |-> helmet(s.helmet),
   cookie |-> 0, csrf |-> 0]

\* The state a request leaves and its response.
Done(s, res) == [s EXCEPT !.last = [s.last EXCEPT !.res = res]]

\* The chat handler that binds whatever nonce it is sent.
chatBindsAny(s, req) ==
  IF bodyOf(req).nonce \in {NoNonce, NumberNonce}
  THEN Done(s, Reply(s, 400, "Missing nonce", ""))
  ELSE Done([s EXCEPT !.session.chatNonce =
                        [value |-> bodyOf(req).nonce, expires |-> s.now + NonceTtl]],
            Reply(s, 200, "", "reply"))

\* POST /api/chat
chat(s, req) ==
  IF bodyOf(req).nonce \in {NoNonce, NumberNonce}
  THEN Done(s, Reply(s, 400, "Missing nonce", ""))
  ELSE IF s.session.chatNonce = None \/ s.session.chatNonce.expires < s.now
  THEN Done([s EXCEPT !.session.chatNonce =
                        [value |-> bodyOf(req).nonce, expires |-> s.now + NonceTtl]],
            Reply(s, 200, "", "reply"))
  ELSE IF s.session.chatNonce.value # bodyOf(req).nonce
  THEN Done(s, Reply(s, 403, "Invalid nonce", ""))
  ELSE Done([s EXCEPT !.session.chatNonce.expires = s.now + NonceTtl],
            Reply(s, 200, "", "reply"))

\* POST /api/chat/reset
chatReset(s) ==
  Done([s EXCEPT !.session.chatNonce = None], Reply(s, 200, "", "ok"))

\* The contact handler that checks the token and keeps it.
contactKeepsToken(s, req) ==
  IF ~bodyOf(req).fieldsOk \/ bodyOf(req).csrfToken = 0
  THEN Done(s, Reply(s, 400, "errors", ""))
  ELSE IF \/ s.session.csrfToken = None
          \/ s.session.csrfToken.value # bodyOf(req).csrfToken
          \/ s.now > s.session.csrfToken.expires
  THEN Done(s, Reply(s, 403, "Invalid CSRF token", ""))
  ELSE Done(s, Reply(s, 200, "", "ok"))

\* POST /api/contact with contactValidation
contact(s, req) ==
  IF ~bodyOf(req).fieldsOk \/ bodyOf(req).csrfToken = 0
  THEN Done(s, Reply(s, 400, "errors", ""))
  ELSE IF \/ s.session.csrfToken = None
          \/ s.session.csrfToken.value # bodyOf(req).csrfToken
          \/ s.now > s.session.csrfToken.expires
  THEN Done(s, Reply(s, 403, "Invalid CSRF token", ""))
  ELSE Done([s EXCEPT !.session.csrfToken =
                        [value |-> s.issued + 1, expires |-> s.now + NonceTtl],
                      !.issued = s.issued + 1,
                      !.spent = s.spent \cup {bodyOf(req).csrfToken}],
            [Reply(s, 200, "", "ok") EXCEPT !.csrf = s.issued + 1])

\* GET /api/csrf-token
csrfToken(s) ==
  Done([s EXCEPT !.session.csrfToken =
                   [value |-> s.issued + 1, expires |-> s.now + NonceTtl],
                 !.issued = s.issued + 1],
       Reply(s, 200, "", "token"))

\* The routes behind requireNonce, GET /healthz and the 404 handler.
routes(s, req) ==
  IF req.method = "GET" /\ req.path = "/api/csrf-token" THEN csrfToken(s)
  ELSE IF req.method = "POST" /\ req.path = "/api/contact" THEN contact(s, req)
  ELSE IF req.method = "POST" /\ req.path = "/api/chat/reset" THEN chatReset(s)
  ELSE IF req.method = "POST" /\ req.path = "/api/chat" THEN chat(s, req)
  ELSE IF req.method = "GET" /\ req.path = "/healthz" THEN Done(s, Reply(s, 204, "", ""))
  ELSE Done(s, Reply(s, 404, "Not Found", ""))

\* The response of routes with the nonce cookie requireNonce has set.
WithCookie(s, nonce) == [s EXCEPT !.last.res.cookie = nonce]

nonceValid(s, req) ==
  /\ req.nonce # 0
  /\ s.session.nonce # None
  /\ req.nonce = s.session.nonce.value
  /\ ~(s.now > s.session.nonce.expires)

\* requireNonce that checks the nonce and keeps it.
requireNonceKeeps(s, req) ==
  IF ~nonceValid(s, req)
  THEN Done(s, Reply(s, 403, "Invalid nonce", ""))
  ELSE routes([s EXCEPT !.used = s.used \cup {req.nonce}], req)

\* app.use('/api/', requireNonce)
requireNonce(s, req) ==
  IF ~nonceValid(s, req)
  THEN Done(s, Reply(s, 403, "Invalid nonce", ""))
  ELSE WithCookie(routes([s EXCEPT !.session.nonce =
                                     [value |-> s.issued + 1, expires |-> s.now + NonceTtl],
                                   !.issued = s.issued + 1,
                                   !.used = s.used \cup {req.nonce}],
                         req),
                  s.issued + 1)

\* POST /api/session
session(s) ==
  Done([s EXCEPT !.session.nonce = [value |-> s.issued + 1, expires |-> s.now + NonceTtl],
                 !.issued = s.issued + 1],
       [Reply(s, 204, "", "") EXCEPT !.cookie = s.issued + 1])

\* What follows the rate limiter on /api/.
api(s, req) ==
  IF req.method = "POST" /\ req.path = "/api/session" THEN session(s)
  ELSE requireNonce(s, req)

\* The window of the limiter at the time of the request.
window(s) ==
  IF s.now >= s.limiter.resetAt
  THEN [hits |-> 0, resetAt |-> s.now + windowMs]
  ELSE s.limiter

\* app.use('/api/', apiLimiter): the request is counted, and answered 429
\* when it is beyond max in its window.
apiLimiter(s, req) ==
  IF window(s).hits + 1 > max
  THEN Done([s EXCEPT !.limiter = [window(s) EXCEPT !.hits = max + 1]],
            Reply(s, 429, "Too many requests", ""))
  ELSE api([s EXCEPT !.limiter = [window(s) EXCEPT !.hits = window(s).hits + 1]], req)

\* express.json({limit: '128kb'}), whose error goes to the error handler
\* at the end of the chain, then the middleware and routes in their order.
app(s, req) ==
  IF req.body = NotJson
  THEN Done(s, Reply(s, 500, "Internal Server Error", ""))
  ELSE IF req.path \in ApiPaths THEN apiLimiter(s, req)
  ELSE routes(s, req)

\* The state at the arrival of req, d milliseconds after the last one.
Arrival(s, req, d) ==
  [s EXCEPT !.now = s.now + d, !.served = s.served + 1,
            !.last = [req |-> req, res |-> None, before |-> s.session, at |-> s.now + d,
                      hits |-> window([s EXCEPT !.now = s.now + d]).hits,
                      used |-> s.used, spent |-> s.spent]]

\* The times between two requests: the clock is followed until the first
\* millisecond after the lifetime of a nonce or token issued at time 0.
Delays(s) == {d \in {0, NonceTtl, NonceTtl + 1} : s.now + d <= NonceTtl + 1}

\* The nonce cookies a client sends: none, and the ones it was given.
ClientNonces(s) ==
  {0} \cup s.used
    \cup (IF s.session.nonce = None THEN {} ELSE {s.session.nonce.value})

ClientTokens(s) ==
  {0, -1} \cup s.spent
    \cup (IF s.session.csrfToken = None THEN {} ELSE {s.session.csrfToken.value})

ServerBodies(s, path) ==
  IF path = "/api/contact"
  THEN {[fieldsOk |-> ok, csrfToken |-> t, nonce |-> NoNonce] :
          ok \in BOOLEAN, t \in ClientTokens(s)} \cup {None, NotJson}
  ELSE IF path = "/api/chat"
  THEN {[fieldsOk |-> FALSE, csrfToken |-> 0, nonce |-> n] :
          n \in ChatNonces \cup {NoNonce, NumberNonce}} \cup {None, NotJson}
  ELSE IF path \in {"/api/session", "/api/chat/reset"} THEN {None, NotJson}
  ELSE {None}

ServerRequests(s, method, path) ==
  {[method |-> method, path |-> path, nonce |-> n, body |-> b] :
     n \in ClientNonces(s), b \in ServerBodies(s, path)}

InitE ==
  /\ server \in {[process |-> "loading", exitCode |-> None, environ |-> e, helmet |-> v,
                  now |-> 0, session |-> EmptySession, issued |-> 0,
                  limiter |-> [hits |-> 0, resetAt |-> windowMs], used |-> {},
                  spent |-> {}, served |-> 0, last |-> None] :
                   e \in ServerEnvs, v \in HelmetVersions}
  /\ worker = "server"
  /\ env = None
  /\ request = None
  /\ pc = "express"
  /\ bodyText = None
  /\ input = None
  /\ shape = None
  /\ fields = None
  /\ envelope = None
  /\ calls = <<>>
  /\ outcome = None
  /\ response = NoResponse
  /\ call = None
  /\ results = <<>>
  /\ steps = <<>>
  /\ handlers = <<>>
  /\ isolate = None
  /\ page = None

\* node server.js: the module runs to the secret check, then listens.
\* process.env is read on lines 38 and 39 only, so it is followed no
\* further than the check.
Startup ==
  /\ pc = "express"
  /\ server.process = "loading"
  /\ server' = IF fatalAtStartup(server.environ)
               THEN [server EXCEPT !.process = "exited", !.exitCode = 1]
               ELSE [server EXCEPT !.process = "listening", !.environ = None]
  /\ UNCHANGED <<handlers, isolate, page>>
  /\ UNCHANGED workerVars

\* One request goes through the application.
Serve(method, path) ==
  /\ pc = "express"
  /\ server.process = "listening"
  /\ server.served < MaxServed
  /\ \E req \in ServerRequests(server, method, path), d \in Delays(server) :
       server' = app(Arrival(server, req, d), req)
  /\ UNCHANGED <<handlers, isolate, page>>
  /\ UNCHANGED workerVars

\* The first max - 1 requests of the client, all to /api/ without a nonce
\* cookie and in the first millisecond: the limiter counts each and
\* requireNonce answers each 403, which leaves the session as it is.
Burst ==
  /\ pc = "express"
  /\ server.process = "listening"
  /\ server.served = 0
  /\ server.limiter.hits = 0
  /\ server' = [server EXCEPT !.limiter.hits = max - 1]
  /\ UNCHANGED <<handlers, isolate, page>>
  /\ UNCHANGED workerVars

PostSession == Serve("POST", "/api/session")

GetCsrfToken == Serve("GET", "/api/csrf-token")

PostContact == Serve("POST", "/api/contact")

PostChatReset == Serve("POST", "/api/chat/reset")

PostChat == Serve("POST", "/api/chat")

GetHealthz == Serve("GET", "/healthz")

\* A request no route matches, under /api/ or not.
NotFound == Serve("GET", "/api/other") \/ Serve("GET", "/")

NextE ==
  \/ Startup
  \/ Burst
  \/ PostSession
  \/ GetCsrfToken
  \/ PostContact
  \/ PostChatReset
  \/ PostChat
  \/ GetHealthz
  \/ NotFound

SpecServer == InitE /\ [][NextE]_vars

--------------------------------------------------------------------------
(* An intake worker with the transit broker as its downstream: the call    *)
(* the intake makes is handled by the broker's fetch, and the broker's     *)
(* response is what the intake's await returns.  The intake is taken up    *)
(* where the body has been read and parsed; the call reaches the broker    *)
(* whole, as the text JSON.stringify made.                                 *)

\* The characters of a text: the names of the forms letter by letter, any
\* other text in one piece.
Chars(s) ==
  CASE s = "contact" -> FormContact.s
    [] s = "join" -> FormJoin.s
    [] OTHER -> <<s>>

\* JSON.parse(JSON.stringify(v)): own properties only, under the default
\* prototype, without those that hold undefined; undefined in an array
\* becomes null.
RECURSIVE Reparsed(_)
Reparsed(v) ==
  CASE v.t = "object" ->
         Plain([i \in 1..Len(SelectSeq(v.props, LAMBDA p : p.v # Undefined)) |->
                  Prop(SelectSeq(v.props, LAMBDA p : p.v # Undefined)[i].k,
                       Reparsed(SelectSeq(v.props, LAMBDA p : p.v # Undefined)[i].v))])
    [] v.t = "array" ->
         Arr([i \in 1..Len(v.items) |->
                IF v.items[i] = Undefined THEN Null ELSE Reparsed(v.items[i])])
    [] OTHER -> v

\* body: JSON.stringify(envelope), as the body of the request to /core.
stringified(e) ==
  Body(Plain(<<Prop("schema", Str(Chars(e.schema))), Prop("asset_id", Str(Chars(e.asset_id))),
               Prop("form", Str(Chars(e.form))), Prop("fields", Reparsed(e.fields))>>),
       0, FALSE, 0)

\* The request env.TRANSIT.fetch('https://transit.internal/core', ...) or
\* fetch(new URL('/core', env.TRANSIT_URL), ...) makes: it has no Origin.
coreRequest == [method |-> "POST", path |-> "/core", origin |-> "", body |-> None]

\* The locals of the broker's call of fetch, with its configuration.
BrokerCall(e) ==
  [request |-> coreRequest, pc |-> "start", calls |-> <<>>, outcome |-> None,
   response |-> NoResponse, env |-> e]

\* What the body of a submission may hold: a map of fields, or a form and
\* the fields, with the form of either worker, an unknown one or null.
PipelineInputs(w) ==
  NearBaseMaps(w)
  \cup {Plain(<<Prop("form", f), Prop("fields", m)>>) :
          f \in {FormContact, FormJoin, Str(<<"x">>), Null}, m \in NearBaseMaps(w)}

\* The configurations with the request's origin allowed and the default
\* limits, with and without a downstream.
PipelineEnvs ==
  {e \in Envs : /\ e.ALLOWED_ORIGINS = Str(<<OpsOrigin>>)
                /\ e.MAX_BODY_BYTES = Undefined
                /\ e.MAX_FIELD_BYTES = Undefined}

InitP ==
  /\ worker \in Workers
  /\ env \in PipelineEnvs
  /\ input \in PipelineInputs(worker)
  /\ request = [method |-> "POST", path |-> IngressPath(worker), origin |-> OpsOrigin,
                body |-> Body(input, 0, FALSE, 0)]
  /\ pc = "shape"
  /\ bodyText = text(request.body)
  /\ shape = None
  /\ fields = None
  /\ envelope = None
  /\ calls = <<>>
  /\ outcome = None
  /\ response = NoResponse
  /\ call = None
  /\ results = <<>>
  /\ steps = <<"origin", "read", "size", "parse">>
  /\ handlers = <<>>
  /\ isolate = None
  /\ server = None
  /\ page = None

\* The call arrives at a broker.
BrokerCalled ==
  /\ pc = "await"
  /\ handlers = <<>>
  /\ \E e \in TransitEnvs : handlers' = <<BrokerCall(e)>>
  /\ UNCHANGED <<isolate, server, page>>
  /\ UNCHANGED workerVars

\* The broker's fetch runs to its await of request.text().
BrokerStarts ==
  /\ pc = "await"
  /\ handlers # <<>>
  /\ handlers[1].pc = "start"
  /\ handlers' = <<FetchStart("transit", handlers[1].env, handlers[1])>>
  /\ UNCHANGED <<isolate, server, page>>
  /\ UNCHANGED workerVars

\* The broker's fetch runs from the text of the body to its return.
BrokerReads ==
  /\ pc = "await"
  /\ handlers # <<>>
  /\ handlers[1].pc = "text"
  /\ \E now \in Instants :
       handlers' = <<FetchText("transit", handlers[1].env,
                               [handlers[1] EXCEPT !.request.body = stringified(calls[1].body)],
                               stringified(calls[1].body), now)>>
  /\ UNCHANGED <<isolate, server, page>>
  /\ UNCHANGED workerVars

\* The intake's await returns the broker's response, and the intake answers.
BrokerReplied ==
  /\ pc = "await"
  /\ handlers # <<>>
  /\ handlers[1].pc = "done"
  /\ steps' = Append(steps, "reply")
  /\ outcome' = [kind |-> "replied", status |-> handlers[1].response.status]
  /\ Return(replyTo([kind |-> "replied", status |-> handlers[1].response.status], corsHeaders))
  /\ UNCHANGED <<handlers, isolate, server, page, call, results, worker, env, request, bodyText,
                 input, shape, fields, envelope, calls>>

NextP ==
  \/ ExtractShape
  \/ Validate
  \/ EnforceLimits
  \/ BuildEnvelope
  \/ Forward
  \/ BrokerCalled
  \/ BrokerStarts
  \/ BrokerReads
  \/ BrokerReplied

SpecPipeline == InitP /\ [][NextP]_vars

--------------------------------------------------------------------------
(* The join form in the browser (cojoin.js): its dynamic sections, the     *)
(* clicks on their buttons, what is typed into their entries, and the      *)
(* submission of the form.                                                 *)

\* The entries a section is followed with.
MaxEntries == 2

\* The sections: Experience and Continued Education get a textarea for an
\* entry, every other section an input of type text.
Sections == {"Skills", "Experience", "Continued Education"}

SectionOrder == <<"Skills", "Experience", "Continued Education">>

\* The element the add button creates in a section.
fieldOf(section) ==
  IF section = "Experience" THEN "textarea"
  ELSE IF section = "Continued Education" THEN "textarea"
  ELSE "input[type=text]"

\* What an entry may hold: nothing, white space, a text.
EntryValues == {"", " ", "x"}

\* input.value.trim()
trim(v) == IF v = " " THEN "" ELSE v

EmptySection == [entries |-> <<>>, completed |-> FALSE]

\* The last handler that ran, the section it ran for, and its alert; a
\* submission that isHoneypotTriggered stops is noted as "honeypot".
Ran(event, section, alert) == [event |-> event, section |-> section, alert |-> alert]

\* toggleSectionState(section, accepted): the entries, the add and the
\* remove button are disabled and the section is marked completed, or
\* all of that is undone.
toggleSectionState(p, section, accepted) ==
  [p EXCEPT !.sections[section].completed = accepted]

\* form.reset(): every field of the form is set back to its default, for
\* an entry the empty value, disabled or not.
formReset(p) ==
  IF p.inForm
  THEN [p EXCEPT !.sections =
                   [s \in Sections |->
                      [p.sections[s] EXCEPT !.entries =
                         [i \in 1..Len(p.sections[s].entries) |-> ""]]]]
  ELSE p

\* resetJoinFormState()
resetJoinFormState(p) == [p EXCEPT !.sections = [s \in Sections |-> EmptySection]]

\* section.querySelectorAll('input[type=text]') of handleJoinSubmit
textInputs(p, section) ==
  IF fieldOf(section) = "input[type=text]" THEN p.sections[section].entries ELSE <<>>

\* The first section the loop of handleJoinSubmit stops at, "" when it
\* stops at none.
RECURSIVE firstOpen(_, _)
firstOpen(p, i) ==
  IF i > Len(SectionOrder) THEN ""
  ELSE IF Len(textInputs(p, SectionOrder[i])) > 0 /\ ~p.sections[SectionOrder[i]].completed
  THEN SectionOrder[i]
  ELSE firstOpen(p, i + 1)

\* handleJoinSubmit up to its await of sendJson.
handleJoinSubmit(p, honeypot, suspicious) ==
  IF honeypot THEN [formReset(p) EXCEPT !.last = Ran("honeypot", "", "")]
  ELSE IF firstOpen(p, 1) # ""
  THEN [p EXCEPT !.last = Ran("submit", firstOpen(p, 1), "Please accept your entries")]
  ELSE IF suspicious
  THEN [formReset(p) EXCEPT !.last = Ran("submit", "", "Potential malicious content detected")]
  ELSE [p EXCEPT !.pending = TRUE, !.last = Ran("submit", "", "")]

InitJ ==
  /\ page \in {[inForm |-> f, sections |-> [s \in Sections |-> EmptySection],
                pending |-> FALSE, last |-> Ran("load", "", "")] : f \in BOOLEAN}
  /\ pc = "page"
  /\ worker = "page"
  /\ env = None
  /\ request = None
  /\ bodyText = None
  /\ input = None
  /\ shape = None
  /\ fields = None
  /\ envelope = None
  /\ calls = <<>>
  /\ outcome = None
  /\ response = NoResponse
  /\ call = None
  /\ results = <<>>
  /\ steps = <<>>
  /\ handlers = <<>>
  /\ isolate = None
  /\ server = None

\* A click on the add button, which is disabled while the section is
\* completed.
ClickAdd(s) ==
  /\ pc = "page"
  /\ ~page.sections[s].completed
  /\ Len(page.sections[s].entries) < MaxEntries
  /\ page' = [page EXCEPT !.sections[s].entries = Append(@, ""), !.last = Ran("add", s, "")]
  /\ UNCHANGED <<handlers, isolate, server>>
  /\ UNCHANGED workerVars

\* A click on the remove button, which is disabled while the section is
\* completed.
ClickRemove(s) ==
  /\ pc = "page"
  /\ ~page.sections[s].completed
  /\ page' = [page EXCEPT !.sections[s].entries =
                            IF @ = <<>> THEN @ ELSE SubSeq(@, 1, Len(@) - 1),
                          !.last = Ran("remove", s, "")]
  /\ UNCHANGED <<handlers, isolate, server>>
  /\ UNCHANGED workerVars

\* The user types into an entry, which is disabled while the section is
\* completed.
Type(s) ==
  /\ pc = "page"
  /\ ~page.sections[s].completed
  /\ \E i \in 1..Len(page.sections[s].entries), v \in EntryValues :
       page' = [page EXCEPT !.sections[s].entries[i] = v, !.last = Ran("type", s, "")]
  /\ UNCHANGED <<handlers, isolate, server>>
  /\ UNCHANGED workerVars

\* A click on the accept button, which is hidden while the section is
\* completed.
ClickAccept(s) ==
  /\ pc = "page"
  /\ ~page.sections[s].completed
  /\ page' = IF Len(page.sections[s].entries) = 0
             THEN [page EXCEPT !.last = Ran("accept", s, "Add at least one entry.")]
             ELSE IF \E i \in 1..Len(page.sections[s].entries) :
                       trim(page.sections[s].entries[i]) = ""
             THEN [page EXCEPT !.last = Ran("accept", s, "Please fill out all fields")]
             ELSE [toggleSectionState(page, s, TRUE) EXCEPT !.last = Ran("accept", s, "")]
  /\ UNCHANGED <<handlers, isolate, server>>
  /\ UNCHANGED workerVars

\* A click on the edit button, which is shown while the section is
\* completed.
ClickEdit(s) ==
  /\ pc = "page"
  /\ page.sections[s].completed
  /\ page' = [toggleSectionState(page, s, FALSE) EXCEPT !.last = Ran("edit", s, "")]
  /\ UNCHANGED <<handlers, isolate, server>>
  /\ UNCHANGED workerVars

\* The form is submitted, by a person or a bot that fills the honeypot,
\* with or without markup in one of its named fields.
Submit ==
  /\ pc = "page"
  /\ ~page.pending
  /\ \E honeypot \in BOOLEAN, suspicious \in BOOLEAN :
       page' = handleJoinSubmit(page, honeypot, suspicious)
  /\ UNCHANGED <<handlers, isolate, server>>
  /\ UNCHANGED workerVars

\* sendJson comes back: handleJoinSubmit alerts, resets the form and the
\* sections.
Submitted ==
  /\ pc = "page"
  /\ page.pending
  /\ page' = [resetJoinFormState(formReset(page)) EXCEPT
                !.pending = FALSE,
                !.last = Ran("submitted", "", "Join form submitted successfully!")]
  /\ UNCHANGED <<handlers, isolate, server>>
  /\ UNCHANGED workerVars

NextJ ==
  \/ \E s \in Sections : ClickAdd(s)
  \/ \E s \in Sections : ClickRemove(s)
  \/ \E s \in Sections : Type(s)
  \/ \E s \in Sections : ClickAccept(s)
  \/ \E s \in Sections : ClickEdit(s)
  \/ Submit
  \/ Submitted

SpecJoinForm == InitJ /\ [][NextJ]_vars

--------------------------------------------------------------------------
(* The properties of the intake handlers.                                  *)

\* The order of the steps of the ingress branch.
CheckOrder ==
  <<"origin", "read", "size", "parse", "shape", "validate", "limits", "envelope", "forward",
    "reply">>

IsPrefix(s, t) == Len(s) <= Len(t) /\ \A i \in 1..Len(s) : s[i] = t[i]

InSteps(step) == \E i \in 1..Len(steps) : steps[i] = step

\* The error code of a response, "" when its body names none.
ErrorName(r) ==
  IF r # NoResponse /\ "error" \in DOMAIN r.body THEN r.body.error ELSE ""

\* The status name of a response, "" when its body names none.
StatusName(r) ==
  IF r # NoResponse /\ "status" \in DOMAIN r.body THEN r.body.status ELSE ""

\* The request is a POST to the ingress path of the worker.
IsIngress == request.method = "POST" /\ request.path = IngressPath(worker)

\* The result of validating the body b of a request that parses to an
\* object shape: the validated fields or the error.
ValidationOf(b) ==
  validateAgainstSchema(worker, worker, SchemaOf(worker),
                        sanitizeValue(shapeOf(JSONparse(text(b)).v)))

\* The first check that the request, with the body it has sent, does not
\* pass: "none" when it passes them all.
FailedCheck ==
  IF ~isAllowedOrigin(env, request.origin) THEN "origin"
  ELSE IF request.body = BrokenBody THEN "read"
  ELSE IF byteLen(text(request.body)) > maxBodyBytes(env) THEN "size"
  ELSE IF ~JSONparse(text(request.body)).ok THEN "parse"
  ELSE IF \/ Falsy(shapeOf(JSONparse(text(request.body)).v))
          \/ ~TypeofObject(shapeOf(JSONparse(text(request.body)).v)) THEN "shape"
  ELSE IF ~ValidationOf(request.body).ok THEN "validate"
  ELSE IF ~enforceByteLimits(worker, ValidationOf(request.body).v, maxFieldBytes(env)).ok
       THEN "limits"
  ELSE "none"

\* The status and error code with which a failed check answers.
AnswerOf(check) ==
  CASE check = "origin" -> <<403, "forbidden_origin">>
    [] check = "read" -> <<400, "read_error">>
    [] check = "size" -> <<413, "payload_too_large">>
    [] check = "parse" -> <<400, "invalid_json">>
    [] check = "shape" -> <<400, "invalid_payload">>
    [] check = "validate" -> <<400, "validation_error">>
    [] check = "limits" -> <<400, "validation_error">>

\* C1: on POST /ingress/<form> the checks run in the order origin, body
\* size, JSON parse, payload shape, validation, per-field byte cap,
\* forward; the response is the one of the first check that fails, and
\* after a failure no later step runs: no envelope, no downstream call.
C1_ChecksInOrder ==
  /\ IsPrefix(steps, CheckOrder)
  /\ (pc = "done" /\ steps # <<>> /\ request.body # None) =>
       IF FailedCheck = "none"
       THEN InSteps("forward") /\ ErrorName(response) = ""
       ELSE /\ steps[Len(steps)] = FailedCheck
            /\ response.status = AnswerOf(FailedCheck)[1]
            /\ ErrorName(response) = AnswerOf(FailedCheck)[2]
            /\ envelope = None
            /\ calls = <<>>
  /\ (pc = "done" /\ steps # <<>> /\ request.body = None) =>
       /\ steps = <<"origin">>
       /\ ~isAllowedOrigin(env, request.origin)
       /\ response.status = 403 /\ ErrorName(response) = "forbidden_origin"
       /\ envelope = None /\ calls = <<>>

\* A request that passes the first five checks and fails the validation.
C1_Witness ==
  /\ pc = "done"
  /\ request.body # None
  /\ FailedCheck = "validate"
  /\ steps = <<"origin", "read", "size", "parse", "shape", "validate">>
  /\ response.status = 400

\* C6: an accepted submission causes at most one downstream call, through
\* the service binding when there is one, else through the URL when one is
\* configured, else none; a call that failed, was rejected or threw is not
\* made again, and the URL is not tried after the binding.
C6_AtMostOneCall ==
  /\ Len(calls) <= 1
  /\ \A i \in 1..Len(calls) :
       /\ calls[i].channel = (IF env.TRANSIT = "binding" THEN "binding" ELSE "url")
       /\ calls[i].channel = "url" => env.TRANSIT_URL # ""
       /\ calls[i].body = envelope /\ envelope # None
  /\ (env.TRANSIT # "binding" /\ env.TRANSIT_URL = "") => calls = <<>>
  /\ (InSteps("forward") /\ env.TRANSIT = "binding") => Len(calls) = 1
  /\ (InSteps("forward") /\ env.TRANSIT # "binding"
        /\ env.TRANSIT_URL = "https://transit.example") => Len(calls) = 1
  /\ outcome # None => Len(calls) = 1

\* The call through the binding threw, a URL is configured as well, and
\* the handler has answered.
C6_Witness ==
  /\ pc = "done"
  /\ outcome # None
  /\ outcome.kind = "threw"
  /\ env.TRANSIT = "binding"
  /\ env.TRANSIT_URL # ""
  /\ Len(calls) = 1

\* The origins that the ALLOWED_ORIGINS setting of e lists.
ListedOrigins(e) ==
  IF e.ALLOWED_ORIGINS = Undefined THEN {}
  ELSE {o \in Origins \ {""} :
          \E i \in 1..Len(e.ALLOWED_ORIGINS.s) : e.ALLOWED_ORIGINS.s[i] = o}

\* The request is a submission that passes every check: an allowed origin,
\* a body within MAX_BODY_BYTES that parses to an object, fields that
\* satisfy the schema, every string within MAX_FIELD_BYTES.
IsValidSubmission ==
  /\ IsIngress
  /\ request.origin \in ListedOrigins(env)
  /\ request.body \notin {None, BrokenBody}
  /\ RawBytes(request.body) <= maxBodyBytes(env)
  /\ TextBytes(request.body) <= maxBodyBytes(env)
  /\ JSONparse(text(request.body)).ok
  /\ ~Falsy(shapeOf(JSONparse(text(request.body)).v))
  /\ shapeOf(JSONparse(text(request.body)).v).t = "object"
  /\ ValidationOf(request.body).ok
  /\ ~ExceedsBytes(ValidationOf(request.body).v, maxFieldBytes(env))

\* C2: a valid submission to either intake handler is never answered 400
\* validation_error: the envelope is built and the answer is 202
\* accepted_by_transit, transit_rejected or 200 validated_only.
C2_ValidSubmissionAnswered ==
  (pc = "done" /\ IsValidSubmission) =>
    /\ ErrorName(response) # "validation_error"
    /\ envelope # None
    /\ StatusName(response) \in {"accepted_by_transit", "transit_rejected", "validated_only"}

\* C3: a POST to the ingress path whose Origin is absent or not listed is
\* answered 403 forbidden_origin, and a response carries
\* Access-Control-Allow-Origin only for a listed request origin, with that
\* origin as its value and never '*'.
C3_OriginGate ==
  /\ (pc = "done" /\ IsIngress /\ request.origin \notin ListedOrigins(env)) =>
       response.status = 403 /\ ErrorName(response) = "forbidden_origin"
  /\ (response # NoResponse /\ "Access-Control-Allow-Origin" \in DOMAIN response.headers) =>
       /\ request.origin \in ListedOrigins(env)
       /\ response.headers["Access-Control-Allow-Origin"] = request.origin
       /\ response.headers["Access-Control-Allow-Origin"] # "*"

\* C4: a body of more than MAX_BODY_BYTES bytes is answered 413
\* payload_too_large without a JSON parse, and a body of at most
\* MAX_BODY_BYTES bytes is not rejected for its size.
C4_SizeGate ==
  (pc = "done" /\ InSteps("size")) =>
    IF RawBytes(request.body) > maxBodyBytes(env)
    THEN /\ response.status = 413
         /\ ErrorName(response) = "payload_too_large"
         /\ ~InSteps("parse")
    ELSE response.status # 413

\* C5: once the submission is validated the answer follows the downstream:
\* 2xx gives 202 accepted_by_transit, another status is forwarded as
\* transit_rejected with its code, a call that threw or no downstream
\* gives 200 validated_only.
C5_DownstreamDecides ==
  (pc = "done" /\ InSteps("forward")) =>
    IF outcome = None \/ outcome.kind = "threw"
    THEN response.status = 200 /\ StatusName(response) = "validated_only"
    ELSE IF outcome.status >= 200 /\ outcome.status <= 299
    THEN response.status = 202 /\ StatusName(response) = "accepted_by_transit"
    ELSE /\ response.status = outcome.status
         /\ StatusName(response) = "transit_rejected"
         /\ response.body.code = outcome.status

\* C8: a submitted map with a key the schema does not declare fails
\* validation with `unexpected field: <name>`: 400 validation_error, no
\* envelope, no downstream call.
C8_UndeclaredKeyRejected ==
  (InSteps("validate") /\ shape.t = "object"
     /\ \E i \in 1..Len(shape.props) : ~Declared(worker, shape.props[i].k)) =>
    /\ pc = "done"
    /\ response.status = 400
    /\ ErrorName(response) = "validation_error"
    /\ response.body.message.kind = "unexpected field"
    /\ envelope = None
    /\ calls = <<>>

\* The sanitized map that validateAgainstSchema is given.
Sanitized == sanitizeValue(shape)

\* The names the schema of the worker declares.
SchemaNames == {SchemaOf(worker)[i].name : i \in 1..Len(SchemaOf(worker))}

\* The keys of the sanitized map san that the schema does not declare.
Undeclared(san) == SelectSeq(ObjectKeys(san), LAMBDA k : k \notin SchemaNames)

\* What the check of field i alone makes of its value in the map san.
FieldResult(san, i) ==
  validateField(worker, SchemaOf(worker)[i], Get(san, SchemaOf(worker)[i].name))

\* The fields of the map san whose check fails.
InvalidFields(san) == {i \in 1..Len(SchemaOf(worker)) : ~FieldResult(san, i).ok}

\* The message of the validation error r.
MessageOf(r) == [kind |-> r.kind, name |-> r.name, index |-> r.index]

\* The handler has just validated the submitted map.
JustValidated == steps # <<>> /\ steps[Len(steps)] = "validate"

\* C7: when validateAgainstSchema returns, the keys of its output are
\* exactly the names the schema declares: none undeclared, none missing.
C7_OutputKeys ==
  fields # None =>
    /\ fields.t = "object"
    /\ fields.proto = ObjectPrototype
    /\ {fields.props[i].k : i \in 1..Len(fields.props)} = SchemaNames
    /\ Len(fields.props) = Len(SchemaOf(worker))

\* A validated map that left declared fields out.
C7_Witness ==
  /\ fields # None
  /\ Len(shape.props) < Len(SchemaOf(worker))
  /\ \E i \in 1..Len(SchemaOf(worker)) : ~HasOwn(shape, SchemaOf(worker)[i].name)

\* C9: validation reports one error, the first met: an undeclared key
\* before any field, then the fields in schema order, so that of several
\* invalid fields the earliest in the schema is the one named.
C9_FirstErrorOnly ==
  JustValidated =>
    \A san \in {Sanitized} : \A bad \in {InvalidFields(san)} :
      IF Undeclared(san) # <<>>
      THEN /\ pc = "done"
           /\ ErrorName(response) = "validation_error"
           /\ response.body.message =
                [kind |-> "unexpected field", name |-> Head(Undeclared(san)), index |-> -1]
      ELSE IF bad # {}
      THEN /\ pc = "done"
           /\ ErrorName(response) = "validation_error"
           /\ response.body.message = MessageOf(FieldResult(san, SetMin(bad)))
      ELSE pc = "limits" /\ fields # None

\* Two declared fields are invalid and the error names the first of them.
C9_Witness ==
  /\ JustValidated
  /\ pc = "done"
  /\ Undeclared(Sanitized) = <<>>
  /\ Cardinality(InvalidFields(Sanitized)) >= 2
  /\ response.body.message.name = SchemaOf(worker)[SetMin(InvalidFields(Sanitized))].name

\* undefined, null or the empty string.
IsEmptyValue(v) == v = Undefined \/ v = Null \/ v = Str(<<>>)

\* The fields whose value in the map san is missing or empty.
EmptyFields(san) ==
  {i \in 1..Len(SchemaOf(worker)) : IsEmptyValue(Get(san, SchemaOf(worker)[i].name))}

\* C10: a declared field whose value is missing or empty fails the
\* validation with `missing: <name>` when it is required; when it is
\* optional the output holds [] for a strArrayCapped field and "" for any
\* other, and the validation goes on with the next field.  This is said
\* of the fields the validation reaches: no undeclared key, and every
\* earlier field valid.
C10_MissingOrEmpty ==
  JustValidated =>
    \A san \in {Sanitized} : \A bad \in {InvalidFields(san)} :
      Undeclared(san) = <<>> =>
        \A i \in EmptyFields(san) :
          (\A j \in bad : i <= j) =>
            IF SchemaOf(worker)[i].required
            THEN /\ pc = "done"
                 /\ ErrorName(response) = "validation_error"
                 /\ response.body.message =
                      [kind |-> "missing", name |-> SchemaOf(worker)[i].name, index |-> -1]
            ELSE /\ pc = "done" =>
                      /\ \E j \in bad : j > i
                      /\ response.body.message.name # SchemaOf(worker)[i].name
                 /\ pc # "done" =>
                      /\ HasOwn(fields, SchemaOf(worker)[i].name)
                      /\ GetOwn(fields, SchemaOf(worker)[i].name) =
                           (IF SchemaOf(worker)[i].type = "strArrayCapped" THEN Arr(<<>>)
                            ELSE Str(<<>>))

\* An optional field was submitted as text that sanitizes to the empty
\* string, and the output holds its default.
C10_Witness ==
  /\ JustValidated
  /\ pc = "limits"
  /\ \E i \in EmptyFields(Sanitized) :
       /\ ~SchemaOf(worker)[i].required
       /\ HasOwn(shape, SchemaOf(worker)[i].name)
       /\ GetOwn(shape, SchemaOf(worker)[i].name) = OnlyMarkup
       /\ GetOwn(fields, SchemaOf(worker)[i].name) \in {Arr(<<>>), Str(<<>>)}

\* The text s holds the character c.
HasChar(s, c) == \E i \in 1..Len(s) : s[i] = c

\* The text s holds a '<' with a '>' somewhere behind it.
HasTag(s) == \E i \in 1..Len(s) : \E j \in (i + 1)..Len(s) : s[i] = "<" /\ s[j] = ">"

\* sanitizeValue has returned n times or more for a text.
WasSanitized(n) == call # None /\ call.fn = "sanitizeValue" /\ Len(results) >= n

\* C11: the sanitizer is idempotent on strings: sanitizing the sanitized
\* string gives the same string.
C11_SanitizeIdempotent ==
  WasSanitized(2) => results[2] = results[1]

\* C12 as claimed: a string that held markup holds no '<' and no '>'
\* after sanitization, and so no '<script>'.
C12_NoAngleBrackets ==
  (WasSanitized(1) /\ HasTag(call.v.s)) =>
    ~HasChar(results[1].s, "<") /\ ~HasChar(results[1].s, ">")

\* C12 as amended: a sanitized string holds no '<' that a '>' follows, so
\* no complete tag such as '<script>'; <script>alert(1)</script> becomes
\* alert(1), without '<' or '>'.
C12_NoCompleteTag ==
  WasSanitized(1) =>
    /\ \A n \in 1..Len(results) : ~HasTag(results[n].s)
    /\ call.v.s = ScriptAlert =>
         results[1] = Str(<<"a", "l", "e", "r", "t", "(", "1", ")">>)

\* A text of several tags has been sanitized.
C12_Witness ==
  /\ WasSanitized(1)
  /\ call.v.s = <<"<", "b", ">", "o", "<", "b", ">">>
  /\ results[1] = Str(<<"o">>)

\* The strings held in the value v, at any depth.
RECURSIVE StringsOf(_)
StringsOf(v) ==
  CASE v.t = "string" -> {v.s}
    [] v.t = "array" -> UNION {StringsOf(v.items[i]) : i \in 1..Len(v.items)}
    [] v.t = "object" -> UNION {StringsOf(v.props[i].v) : i \in 1..Len(v.props)}
    [] OTHER -> {}

\* Some string held in v is longer than the per-field cap of the worker.
OverCap(v) == \E t \in StringsOf(v) : Utf8Bytes(t) > maxFieldBytes(env)

\* C13: every string in the fields of an envelope, forwarded or only
\* acknowledged, is at most MAX_FIELD_BYTES bytes long, inside arrays as
\* well; a validated field map over the cap is answered 400
\* validation_error and nothing is forwarded.
C13_FieldCap ==
  /\ envelope # None => ~OverCap(envelope.fields)
  /\ \A i \in 1..Len(calls) : ~OverCap(calls[i].body.fields)
  /\ (InSteps("limits") /\ OverCap(fields)) =>
       /\ pc = "done"
       /\ response.status = 400
       /\ ErrorName(response) = "validation_error"
       /\ envelope = None
       /\ calls = <<>>

\* The join worker has validated a map with a text over the cap and
\* refused it.
C13_Witness ==
  /\ worker = "join"
  /\ InSteps("limits")
  /\ OverCap(fields)
  /\ pc = "done"
  /\ response.body.message.kind # "ReferenceError"

--------------------------------------------------------------------------
(* The string lists of the join form.                                      *)

\* The positions in the submitted map of the fields of type strArrayCapped.
ListProps ==
  {i \in 1..Len(shape.props) :
     /\ Declared(worker, shape.props[i].k)
     /\ FieldByName(worker, shape.props[i].k).type = "strArrayCapped"}

\* The encoded size of item i of the array v, 0 for an item that is no string.
ItemBytes(v, i) == IF v.items[i].t = "string" THEN Utf8Bytes(v.items[i].s) ELSE 0

\* Item i of the array v breaks a limit: it is no string, it is longer
\* than maxItemBytes, or the items up to it pass maxTotalBytes together.
ItemBad(v, i) ==
  \/ v.items[i].t # "string"
  \/ ItemBytes(v, i) > maxItemBytes
  \/ SumTo([j \in 1..i |-> ItemBytes(v, j)], i) > maxTotalBytes

\* v is an array of strings within the three limits.
Conforms(v) ==
  /\ v.t = "array"
  /\ Len(v.items) <= maxItems
  /\ \A i \in 1..Len(v.items) : ~ItemBad(v, i)

\* C14: a strArrayCapped field passes validation only if its value is an
\* array of strings with at most 50 items, each of at most 5000 bytes and
\* 20000 bytes together; a value that is not is refused, and when an item
\* is at fault the error carries the index of the first such item.
C14_ArrayOfStrings ==
  JustValidated =>
    \A p \in ListProps : \A v \in {shape.props[p].v} :
      /\ pc = "limits" => Conforms(v)
      /\ ~Conforms(v) =>
           /\ pc = "done"
           /\ ErrorName(response) = "validation_error"
           /\ (v.t = "array" /\ Len(v.items) <= maxItems) =>
                /\ response.body.message.name = shape.props[p].k
                /\ response.body.message.index =
                     SetMin({i \in 1..Len(v.items) : ItemBad(v, i)}) - 1

\* C15: a strArrayCapped value of more than 50 items is refused with
\* "<field> has too many items", and the request leaves no field map, no
\* envelope and no downstream call.
C15_TooManyItems ==
  InSteps("validate") =>
    \A p \in ListProps : \A v \in {shape.props[p].v} :
      (v.t = "array" /\ Len(v.items) > maxItems) =>
        /\ pc = "done"
        /\ response.status = 400
        /\ ErrorName(response) = "validation_error"
        /\ response.body.message =
             [kind |-> "has too many items", name |-> shape.props[p].k, index |-> -1]
        /\ fields = None
        /\ envelope = None
        /\ calls = <<>>

\* A list of maxItems + 1 items has been refused.
C15_Witness ==
  /\ pc = "done"
  /\ response.status = 400
  /\ \E p \in ListProps :
       /\ shape.props[p].v.t = "array"
       /\ Len(shape.props[p].v.items) = maxItems + 1

--------------------------------------------------------------------------
(* The email, date and time helpers.                                       *)

\* The call of the helper fn has returned or thrown.
Returned(fn) == pc = "returned" /\ call.fn = fn

\* s reads local@domain.tld: three parts without space or @, none empty.
LocalAtDomainTld(s) ==
  \E a \in 2..Len(s) : \E d \in (a + 2)..(Len(s) - 1) :
    /\ s[a] = "@" /\ s[d] = "."
    /\ \A i \in 1..Len(s) : i # a => s[i] \notin {"@", " ", "TAB", "NBSP"}

\* C16: an address whose sanitized text has 254 characters passes, one
\* of 255 fails with "<field> too long" and not with "invalid <field>",
\* and a text under 3 characters fails with "<field> too short".
C16_EmailLengths ==
  Returned("mustEmail") =>
    \A t \in {sanitizeString(call.v.s)} :
      /\ (Len(t) = 254 /\ LocalAtDomainTld(t)) => results[1] = Ok(Str(t))
      /\ Len(t) >= 255 => results[1] = Throw("too long", "Email", -1)
      /\ Len(t) < 3 => results[1] = Throw("too short", "Email", -1)

\* An address of 254 characters has passed.
C16_Witness ==
  /\ Returned("mustEmail")
  /\ results[1].ok
  /\ Len(results[1].v.s) = 254

\* s is HH:MM on the 24-hour clock.
ClockTime(s) ==
  /\ Len(s) = 5
  /\ s[3] = ":"
  /\ \/ s[1] \in {"0", "1"} /\ s[2] \in Digits
     \/ s[1] = "2" /\ s[2] \in {"0", "1", "2", "3"}
  /\ s[4] \in {"0", "1", "2", "3", "4", "5"}
  /\ s[5] \in Digits

\* s is four digits, two digits and two digits between hyphens.
DashedDate(s) ==
  /\ Len(s) = 10
  /\ s[5] = "-" /\ s[8] = "-"
  /\ \A i \in (1..10) \ {5, 8} : s[i] \in Digits

\* C17: the contact validator returns a non-empty time only if it is
\* HH:MM with the hour in 00-23 and the minute in 00-59, and a non-empty
\* date only if it is YYYY-MM-DD; it refuses every other non-empty value
\* with "invalid <field>".
C17_StrictDateTime ==
  /\ Returned("mustTime") =>
       \A t \in {sanitizeString(call.v.s)} :
         t # <<>> =>
           IF ClockTime(t) THEN results[1] = Ok(Str(t))
           ELSE results[1] = Throw("invalid", "Preferred Time", -1)
  /\ Returned("mustDate") =>
       \A t \in {sanitizeString(call.v.s)} :
         t # <<>> =>
           IF DashedDate(t) THEN results[1] = Ok(Str(t))
           ELSE results[1] = Throw("invalid", "Preferred Date", -1)

--------------------------------------------------------------------------
(* The transit broker.                                                     *)

\* The broker has answered a POST /core whose body it could parse.
CoreAnswered == worker = "transit" /\ pc = "done" /\ InSteps("form")

\* The form that the parsed body holds as its own property, Undefined
\* when it holds none or is no object.
OwnForm ==
  IF input.t = "object" /\ \E i \in 1..Len(input.props) : input.props[i].k = "form"
  THEN input.props[CHOOSE i \in 1..Len(input.props) : input.props[i].k = "form"].v
  ELSE Undefined

--------------------------------------------------------------------------
(* The sheet logger.                                                       *)

\* The outgoing requests made for the request being handled.
OwnCalls == SelectSeq(calls, LAMBDA c : c.req = RequestNo)

\* The Authorization header is Bearer and the configured secret.
HasSecret == env.API_TOKEN.t = "string" /\ request.auth = Bearer \o env.API_TOKEN.s

\* C19: POST /log checks the bearer token before the body is read: a
\* request whose Authorization header is not 'Bearer <configured secret>'
\* is answered 401 unauthorized with its body unread, an authorized one
\* whose body is no JSON 400 bad_json, and neither makes a token exchange
\* or an append.
C19_AuthBeforeBody ==
  (worker = "sheet" /\ InSteps("auth")) =>
    /\ ~HasSecret =>
         /\ pc = "done"
         /\ response.status = 401
         /\ ErrorName(response) = "unauthorized"
         /\ request.body = None
         /\ OwnCalls = <<>>
    /\ (HasSecret /\ InSteps("json")
          /\ (request.body = BrokenBody \/ request.body.content \in {EmptyText, Malformed})) =>
         /\ pc = "done"
         /\ response.status = 400
         /\ ErrorName(response) = "bad_json"
         /\ OwnCalls = <<>>

\* C20: an authorized POST /log with a JSON body makes its own token
\* exchange, with a token no earlier request obtained; an append is made
\* only with the token of an exchange of the same request that returned;
\* the answer is 200 {ok:true} only if exchange and append both worked
\* and 500 sheet_error otherwise, whatever was thrown on the way.
C20_ExchangePerRequest ==
  worker = "sheet" =>
    /\ \A i \in 1..Len(calls) :
         calls[i].to = "append" =>
           /\ i > 1
           /\ calls[i - 1].to = "token"
           /\ calls[i - 1].req = calls[i].req
           /\ calls[i - 1].returned
           /\ calls[i - 1].token = calls[i].token
    /\ \A i, j \in 1..Len(calls) :
         (calls[i].to = "token" /\ calls[j].to = "token" /\ i # j) => calls[i].req # calls[j].req
    /\ (HasSecret /\ InSteps("token") /\ pc = "done") =>
         IF /\ Len(OwnCalls) = 2
            /\ OwnCalls[1].to = "token" /\ OwnCalls[1].returned
            /\ OwnCalls[2].to = "append" /\ OwnCalls[2].returned
         THEN response.status = 200 /\ response.body = [ok |-> TRUE]
         ELSE response.status = 500 /\ response.body = [error |-> "sheet_error"]

\* Two requests in a row have been logged, each after an exchange of its own.
C20_Witness ==
  /\ worker = "sheet"
  /\ pc = "done"
  /\ Len(results) = 1
  /\ results[1].status = 200
  /\ "ok" \in DOMAIN results[1].body
  /\ response.status = 200
  /\ "ok" \in DOMAIN response.body
  /\ Len(calls) = 4

--------------------------------------------------------------------------
(* The headers of the responses.                                           *)

\* The response r carries the four security headers.
Hardened(r) ==
  /\ "X-Content-Type-Options" \in DOMAIN r.headers
  /\ r.headers["X-Content-Type-Options"] = "nosniff"
  /\ "X-Frame-Options" \in DOMAIN r.headers
  /\ r.headers["X-Frame-Options"] = "DENY"
  /\ "Referrer-Policy" \in DOMAIN r.headers
  /\ r.headers["Referrer-Policy"] = "no-referrer"
  /\ "Permissions-Policy" \in DOMAIN r.headers
  /\ r.headers["Permissions-Policy"] = "geolocation=(), microphone=(), camera=()"

\* C21: every response of the intake workers, the transit broker and the
\* sheet logger carries the four security headers, on every path and
\* whether or not the origin is allow-listed.
C21_SecurityHeaders ==
  /\ response # NoResponse => Hardened(response)
  /\ \A i \in 1..Len(results) : worker = "sheet" => Hardened(results[i])

\* A request from an origin that is not allow-listed has been refused, and
\* the refusal carries no CORS header.
C21_Witness ==
  /\ response # NoResponse
  /\ response.status = 403
  /\ "Access-Control-Allow-Origin" \notin DOMAIN response.headers
  /\ "X-Frame-Options" \in DOMAIN response.headers

--------------------------------------------------------------------------
(* Requests handled at the same time.                                      *)

\* The status and the error or status code of a response.
CodeOf(r) == <<r.status, ErrorName(r), StatusName(r)>>

\* What a handler that runs alone in a fresh instance answers to the
\* request, body and downstream outcome of h.
Alone(h) ==
  IF FetchStart(worker, env, NewHandler([h.request EXCEPT !.body = None])).pc = "done"
  THEN FetchStart(worker, env, NewHandler([h.request EXCEPT !.body = None]))
  ELSE IF FetchText(worker, env, h, h.request.body, "2026-01-01T00:00:00.000Z").pc = "done"
  THEN FetchText(worker, env, h, h.request.body, "2026-01-01T00:00:00.000Z")
  ELSE FetchReply(worker, env, h, h.outcome)

--------------------------------------------------------------------------
(* The Express server.                                                     *)

\* C23: in production with SESSION_SECRET unset or 'dev-secret' the start
\* ends the process, which has served no request and serves none; outside
\* production, or with a real secret, the start brings the server to
\* listen; and no request takes a listening server out of that state.
C23_FatalOnlyAtStartup ==
  [][/\ (/\ server.process = "loading"
         /\ server.environ.NODE_ENV = "production"
         /\ server.environ.SESSION_SECRET \in {Unset, "dev-secret"})
          => (server'.process = "exited" /\ server'.served = 0)
     /\ (/\ server.process = "loading"
         /\ (\/ server.environ.NODE_ENV # "production"
             \/ server.environ.SESSION_SECRET = "s3cr3t"))
          => server'.process = "listening"
     /\ server.process = "exited" => server' = server
     /\ server.process = "listening" => server'.process = "listening"]_vars

\* The start in production with the development secret has ended the
\* process with code 1.
C23_Witness ==
  /\ pc = "express"
  /\ server.process = "exited"
  /\ server.exitCode = 1
  /\ server.environ = [NODE_ENV |-> "production", SESSION_SECRET |-> "dev-secret"]
  /\ server.served = 0

\* C24: every response of the application carries Strict-Transport-Security
\* 'max-age=31536000; includeSubDomains; preload', Referrer-Policy
\* 'strict-origin-when-cross-origin', X-Content-Type-Options 'nosniff' and
\* a Content-Security-Policy with the directive default-src 'none'.
C24_CoreSecurityHeaders ==
  (pc = "express" /\ server.last # None) =>
    /\ server.last.res.headers.hsts = "max-age=31536000; includeSubDomains; preload"
    /\ server.last.res.headers.referrerPolicy = "strict-origin-when-cross-origin"
    /\ server.last.res.headers.nosniff = "nosniff"
    /\ "default-src 'none'" \in server.last.res.headers.csp

\* The last request was to /api/ and was not POST /api/session.
Gated ==
  /\ server.last.req.path \in ApiPaths
  /\ ~(server.last.req.method = "POST" /\ server.last.req.path = "/api/session")

\* Its nonce cookie was the nonce the session held, not yet expired.
CurrentNonce ==
  /\ server.last.before.nonce # None
  /\ server.last.req.nonce = server.last.before.nonce.value
  /\ server.last.at <= server.last.before.nonce.expires

\* It was answered 403 'Invalid nonce' and the session nonce is the one
\* before it.
NonceRejected ==
  /\ server.last.res.status = 403
  /\ server.last.res.error = "Invalid nonce"
  /\ server.session.nonce = server.last.before.nonce

\* The session nonce is one no request was given before.
NonceReplaced ==
  /\ server.session.nonce # None
  /\ server.session.nonce.value # server.last.before.nonce.value
  /\ server.session.nonce.value \notin server.last.used
  /\ server.session.nonce.expires = server.last.at + NonceTtl
  /\ server.last.res.cookie = server.session.nonce.value

\* Its body was JSON or absent, and the limiter had counted fewer than max
\* requests in its window.
LetThrough ==
  /\ server.last.req.body # NotJson
  /\ server.last.hits < max

\* The statement of C25 for every request to /api/ other than POST
\* /api/session: it is answered 403 'Invalid nonce' and leaves the nonce
\* unless its cookie is the current unexpired nonce, it replaces the nonce
\* with a fresh one when it is accepted, and a nonce accepted once is
\* rejected afterwards.
C25_EveryApiRequest ==
  (pc = "express" /\ server.last # None /\ Gated) =>
    /\ ~CurrentNonce => NonceRejected
    /\ CurrentNonce => NonceReplaced
    /\ server.last.req.nonce \in server.last.used => NonceRejected

\* C25: every request to /api/ other than POST /api/session that the body
\* parser and the rate limiter let through is answered 403 'Invalid nonce',
\* leaving the session nonce unchanged, unless its nonce cookie is the
\* session's current unexpired nonce; when it is accepted it replaces the
\* session nonce with a fresh one, so a nonce value accepted once is
\* rejected on every later such request.
C25_NonceGate ==
  (pc = "express" /\ server.last # None /\ Gated /\ LetThrough) =>
    /\ ~CurrentNonce => NonceRejected
    /\ CurrentNonce => NonceReplaced
    /\ server.last.req.nonce \in server.last.used => NonceRejected

\* A nonce that was accepted before came back, in time and with the
\* session still holding a nonce, and was rejected.
C25_Witness ==
  /\ pc = "express" /\ server.last # None /\ Gated /\ LetThrough
  /\ server.last.req.nonce \in server.last.used
  /\ server.last.before.nonce # None
  /\ server.last.at <= server.last.before.nonce.expires
  /\ NonceRejected

ContactRequest ==
  server.last.req.method = "POST" /\ server.last.req.path = "/api/contact"

\* The csrfToken of the body of the last request, 0 when it has none.
PresentedToken ==
  IF server.last.req.body \in {None, NotJson} THEN 0 ELSE server.last.req.body.csrfToken

ContactSucceeded == server.last.res.status = 200 /\ server.last.res.result = "ok"

\* The token presented is the one the session held, not yet expired.
CurrentToken ==
  /\ server.last.before.csrfToken # None
  /\ PresentedToken = server.last.before.csrfToken.value
  /\ server.last.at <= server.last.before.csrfToken.expires

\* The session token is one no request was given before.
TokenReplaced ==
  /\ server.session.csrfToken.value # server.last.before.csrfToken.value
  /\ server.session.csrfToken.value \notin server.last.spent
  /\ server.session.csrfToken.expires = server.last.at + NonceTtl
  /\ server.last.res.csrf = server.session.csrfToken.value

InvalidCsrfToken ==
  server.last.res.status = 403 /\ server.last.res.error = "Invalid CSRF token"

\* The request came to the token check of the contact handler: it was let
\* through, its nonce cookie was accepted and its fields passed
\* contactValidation.
CameToTokenCheck ==
  /\ LetThrough
  /\ CurrentNonce
  /\ server.last.req.body # None
  /\ server.last.req.body.fieldsOk

\* The statement of C26 for every POST /api/contact: it succeeds only with
\* the current unexpired token, success replaces the token, a token used
\* before is answered 403 'Invalid CSRF token', and a rejected request
\* leaves the token.
C26_EveryContact ==
  (pc = "express" /\ server.last # None /\ ContactRequest) =>
    /\ ContactSucceeded => (CurrentToken /\ TokenReplaced)
    /\ PresentedToken \in server.last.spent => InvalidCsrfToken
    /\ ~ContactSucceeded => server.session.csrfToken = server.last.before.csrfToken

\* C26: POST /api/contact succeeds only if the body's csrfToken is the
\* session's current unexpired token; success replaces the session token,
\* so a token used before never succeeds again and is answered 403
\* 'Invalid CSRF token' when the request comes to the token check; a
\* rejected request leaves the session token unchanged.
C26_CsrfTokenOnce ==
  (pc = "express" /\ server.last # None /\ ContactRequest) =>
    /\ ContactSucceeded => (CurrentToken /\ TokenReplaced)
    /\ PresentedToken \in server.last.spent =>
         /\ ~ContactSucceeded
         /\ CameToTokenCheck => InvalidCsrfToken
    /\ ~ContactSucceeded => server.session.csrfToken = server.last.before.csrfToken

\* A token that had been used came to the token check again, in time, and
\* was answered 403 'Invalid CSRF token'.
C26_Witness ==
  /\ pc = "express" /\ server.last # None /\ ContactRequest
  /\ PresentedToken \in server.last.spent
  /\ CameToTokenCheck
  /\ server.last.at <= server.last.before.csrfToken.expires
  /\ InvalidCsrfToken

ChatRequest == server.last.req.method = "POST" /\ server.last.req.path = "/api/chat"

\* The nonce of the body of the last request, NoNonce when it has none.
PresentedChatNonce ==
  IF server.last.req.body \in {None, NotJson} THEN NoNonce ELSE server.last.req.body.nonce

\* The session held a chat nonce that had not expired when the request came.
ChatNonceBound ==
  /\ server.last.before.chatNonce # None
  /\ server.last.before.chatNonce.expires >= server.last.at

\* The statement of C27 for every POST /api/chat and every request.
C27_EveryChat ==
  (pc = "express" /\ server.last # None) =>
    /\ (ChatRequest /\ ChatNonceBound /\ PresentedChatNonce \in ChatNonces
          /\ PresentedChatNonce # server.last.before.chatNonce.value)
         => /\ server.last.res.status = 403
            /\ server.session.chatNonce = server.last.before.chatNonce
    /\ (ChatRequest /\ ChatNonceBound
          /\ PresentedChatNonce = server.last.before.chatNonce.value)
         => /\ server.last.res.status = 200
            /\ server.session.chatNonce =
                 [value |-> PresentedChatNonce, expires |-> server.last.at + NonceTtl]
    /\ (/\ server.session.chatNonce # None
        /\ server.last.before.chatNonce # None
        /\ server.session.chatNonce.value # server.last.before.chatNonce.value)
         => server.last.before.chatNonce.expires < server.last.at

\* C27: while the session holds an unexpired chatNonce, a POST /api/chat
\* that the body parser and the rate limiter let through and whose nonce
\* cookie is accepted is answered 403 when its nonce differs, leaving the
\* bound nonce and its expiry, and is accepted with the expiry extended
\* when its nonce is the bound one; a request that is stopped before the
\* handler leaves both too; and a new value is bound only when none is
\* bound (at first or after POST /api/chat/reset) or the bound one has
\* expired.
C27_ChatNonceBinding ==
  (pc = "express" /\ server.last # None) =>
    /\ (ChatRequest /\ ChatNonceBound /\ PresentedChatNonce \in ChatNonces
          /\ PresentedChatNonce # server.last.before.chatNonce.value)
         => /\ (LetThrough /\ CurrentNonce) => server.last.res.status = 403
            /\ server.last.res.status # 200
            /\ server.session.chatNonce = server.last.before.chatNonce
    /\ (ChatRequest /\ ChatNonceBound /\ LetThrough /\ CurrentNonce
          /\ PresentedChatNonce = server.last.before.chatNonce.value)
         => /\ server.last.res.status = 200
            /\ server.session.chatNonce =
                 [value |-> PresentedChatNonce, expires |-> server.last.at + NonceTtl]
    /\ (/\ server.session.chatNonce # None
        /\ server.last.before.chatNonce # None
        /\ server.session.chatNonce.value # server.last.before.chatNonce.value)
         => server.last.before.chatNonce.expires < server.last.at

\* With a nonce bound and not expired, a chat request with another nonce
\* came to the handler and was answered 403.
C27_Witness ==
  /\ pc = "express" /\ server.last # None
  /\ ChatRequest /\ ChatNonceBound /\ LetThrough /\ CurrentNonce
  /\ PresentedChatNonce \in ChatNonces
  /\ PresentedChatNonce # server.last.before.chatNonce.value
  /\ server.last.res.status = 403
  /\ server.last.res.error = "Invalid nonce"

--------------------------------------------------------------------------
(* The sheet logger without its secret.                                    *)

\* C30: with no API_TOKEN configured, every POST /log that has come to the
\* bearer check is answered 401, whatever its Authorization header, and no
\* token exchange or append is ever made.
C30_NoSecretNoAccess ==
  (worker = "sheet" /\ env.API_TOKEN = Undefined) =>
    /\ calls = <<>>
    /\ InSteps("auth") => (pc = "done" /\ response.status = 401)

--------------------------------------------------------------------------
(* The intake workers and the broker together.                             *)

\* C29: every envelope an intake worker forwards has schema 'ops.v1' and
\* the worker's own form, on the wire too and whatever form the request
\* body names; the broker answers it 202 ack with that form, the intake
\* then answers 202 accepted_by_transit, and never transit_rejected.
C29_IntakeToBroker ==
  /\ \A i \in 1..Len(calls) :
       /\ calls[i].body.schema = "ops.v1"
       /\ calls[i].body.form = worker
       /\ Get(stringified(calls[i].body).content, "form") \in {FormContact, FormJoin}
       /\ Get(stringified(calls[i].body).content, "form").s = Chars(worker)
  /\ (handlers # <<>> /\ handlers[1].pc = "done") =>
       /\ handlers[1].response.status = 202
       /\ StatusName(handlers[1].response) = "ack"
       /\ handlers[1].response.body.form.s = Chars(worker)
  /\ (pc = "done" /\ calls # <<>>) =>
       /\ response.status = 202
       /\ StatusName(response) = "accepted_by_transit"
  /\ pc = "done" => StatusName(response) # "transit_rejected"

\* A join submission whose body names the contact form went through the
\* broker and was accepted.
C29_Witness ==
  /\ worker = "join"
  /\ pc = "done"
  /\ calls # <<>>
  /\ handlers # <<>>
  /\ HasOwn(input, "form")
  /\ Get(input, "form") = FormContact
  /\ handlers[1].response.status = 202
  /\ StatusName(response) = "accepted_by_transit"

--------------------------------------------------------------------------
(* The join form.                                                          *)

\* The section holds an entry and is not completed.
Unaccepted(p, s) == p.sections[s].entries # <<>> /\ ~p.sections[s].completed

\* C28: handleJoinSubmit sends only when every section that holds entries
\* is completed, and alerts and sends nothing when one is not (a
\* submission with the honeypot filled is dropped before); a section
\* becomes completed only by Accept with at least one entry and no empty
\* one; while it is completed the number of its entries does not change.
C28_SubmitOnlyAccepted ==
  [][/\ (~page.pending /\ page'.pending) => \A s \in Sections : ~Unaccepted(page, s)
     /\ (page'.last.event = "submit" /\ \E s \in Sections : Unaccepted(page, s))
          => (page'.last.alert # "" /\ ~page'.pending)
     /\ \A s \in Sections :
          (~page.sections[s].completed /\ page'.sections[s].completed)
            => /\ page'.last = Ran("accept", s, "")
               /\ page.sections[s].entries # <<>>
               /\ \A i \in 1..Len(page.sections[s].entries) : page.sections[s].entries[i] # ""
     /\ \A s \in Sections :
          (page.sections[s].completed /\ page'.sections[s].completed)
            => Len(page'.sections[s].entries) = Len(page.sections[s].entries)]_vars

====
